---- MODULE Spec2Model ----
(***************************************************************************)
(* Model of the TAV construction core: BuildSession (phase state machine   *)
(* and checkpoints), ConstructionGuardian (progress monitor and recovery)  *)
(* and BuildManager (build loop, resume, stop).                            *)
(*                                                                         *)
(* Execution model: JavaScript's event loop.  A task (an async call chain) *)
(* runs without interruption until it awaits a timer or a world call; the  *)
(* field st of a task is "run" while it owns the thread and "io" while it  *)
(* waits.  Timer ticks, external calls and completions of world calls are  *)
(* macrotasks: they happen only when no task is in state "run".            *)
(* Times are in milliseconds; the clock advances by one 5000 ms polling    *)
(* period per Tick.                                                        *)
(***************************************************************************)
EXTENDS Integers, Sequences, FiniteSets, TLC

VARIABLES
    sess,            \* heap of BuildSession objects (sequence, index = identity)
    currentSession,  \* BuildManager.currentSession: index into sess, 0 = null
    isBuilding,      \* BuildManager.isBuilding
    disk,            \* ./sessions: <<sessionId, n>> -> checkpoint file content
    guard,           \* the ConstructionGuardian object
    tasks,           \* async call chains that have not returned yet
    results,         \* results returned so far by build() / resumeBuild()
    now,             \* Date.now()
    botPos,          \* bot.entity.position
    faults,          \* number of environment faults injected so far
    written,         \* history: per session id, the checkpoint written last
    adv,             \* history: the most recent advancePhase call
    ncalls,          \* history: calls made through an object's interface
    still,           \* history: since when the monitor is on and the bot in place
    cls,             \* classifier workbench: blueprint under classification
    ver              \* the BuildVerifier with its world: blocks and inventory

vars == <<sess, currentSession, isBuilding, disk, guard, tasks, results, now,
          botPos, faults, written, adv, ncalls, still, cls, ver>>

----------------------------------------------------------------------------
(* Bounds *)
MaxCalls == 2        \* build()/resumeBuild() calls that create a session
MaxTicks == 7        \* polling periods the clock may advance
MaxFaults == 1       \* injected checkpoint-write / verifier faults
MaxCkpts == 21       \* length of a session's in-memory checkpoint list
MaxTasks == 3        \* async call chains alive at the same time
MaxApiCalls == 10    \* calls made through an object's interface
MaxUnstick == 6      \* recoveries alive at the same time under SpecGuardian
MaxBlocks == 3       \* blocks of a blueprint under classification
MaxY == 1            \* highest y of a blueprint under classification
MaxDup == 2          \* entries of a blueprint over the two stacked cells
MaxRow == 4          \* blocks of a row, the two named rows aside
MaxSolid == 2        \* cells of the world of the checks that are not air
MaxWallBlocks == 5   \* blocks of a blueprint whose walls are built
MaxWallY == 3        \* highest y of such a blueprint
WallLen == 2         \* columns of a wall under the batteries
WallTop == 2         \* highest cell of such a column

----------------------------------------------------------------------------
(* Program constants *)
maxStagnantTime == 30000
maxRepeatedFailures == 5
progressPeriod == 5000
stuckTime == 10000
checkpointEvery == 20
fixBatch == 10
enclosureRadius == 15
maxGaps == 10
roofRadius == 10
minCoverage == 70
interiorRadius == 8
maxObstructions == 5
integrityRadius == 12
maxUnsupported == 10

phases == <<"planning", "resource_gathering", "site_preparation", "foundation",
            "walls", "roof", "details", "verification">>

detailTypes == {"oak_door", "glass", "glass_pane", "torch", "ladder"}

PhaseNames == {phases[k] : k \in 1..Len(phases)}

----------------------------------------------------------------------------
(* Generic helpers *)

\* Array.prototype.indexOf, 1-based; 0 stands for JavaScript's -1
IndexOf(seq, x) ==
    IF \E k \in 1..Len(seq) : seq[k] = x
    THEN CHOOSE k \in 1..Len(seq) : seq[k] = x /\ \A j \in 1..(k-1) : seq[j] # x
    ELSE 0

RemoveAt(seq, i) == [k \in 1..(Len(seq)-1) |-> IF k < i THEN seq[k] ELSE seq[k+1]]

SetMin(S) == CHOOSE m \in S : \A n \in S : m <= n
SetMax(S) == CHOOSE m \in S : \A n \in S : m >= n

----------------------------------------------------------------------------
(* Block classification, BuildSession.isFoundationLayer .. isDetailBlock *)

\* bp is the blueprint's blocks array
YsOf(bp) == {bp[k].y : k \in 1..Len(bp)}

isFoundationLayer(bp, block) == block.y = SetMin(YsOf(bp))

isRoofBlock(bp, block) == block.y = SetMax(YsOf(bp))

isDetailBlock(block) == block.type \in detailTypes

isWallBlock(bp, block) ==
    /\ ~isFoundationLayer(bp, block)
    /\ ~isRoofBlock(bp, block)
    /\ ~isDetailBlock(block)

\* Array.prototype.filter over the blueprint: indices of the selected blocks
Indices(bp) == [k \in 1..Len(bp) |-> k]
foundationBlocks(bp) == SelectSeq(Indices(bp), LAMBDA k : isFoundationLayer(bp, bp[k]))
wallBlocks(bp) == SelectSeq(Indices(bp), LAMBDA k : isWallBlock(bp, bp[k]))
roofBlocks(bp) == SelectSeq(Indices(bp), LAMBDA k : isRoofBlock(bp, bp[k]))
detailBlocks(bp) == SelectSeq(Indices(bp), LAMBDA k : isDetailBlock(bp[k]))

\* groupBlocksByLayer followed by the nested loops of executeWalls: the wall
\* blocks layer by layer in ascending y, insertion order inside a layer
RECURSIVE LayersFrom(_, _, _)
LayersFrom(bp, idx, ys) ==
    IF ys = {} THEN <<>>
    ELSE LET y == SetMin(ys)
         IN SelectSeq(idx, LAMBDA k : bp[k].y = y) \o LayersFrom(bp, idx, ys \ {y})

\* the wall blocks in insertion order, not grouped
groupBlocksInOrder(bp, idx) == idx

groupBlocksByLayer(bp, idx) == LayersFrom(bp, idx, {bp[idx[j]].y : j \in 1..Len(idx)})

\* the blocks a phase handler places, in placement order
PlacementPhases == {"foundation", "walls", "roof", "details"}

PhaseBlocks(bp, phase) ==
    CASE phase = "foundation" -> foundationBlocks(bp)
      [] phase = "walls" -> groupBlocksByLayer(bp, wallBlocks(bp))
      [] phase = "roof" -> roofBlocks(bp)
      [] phase = "details" -> detailBlocks(bp)
      [] OTHER -> <<>>

----------------------------------------------------------------------------
(* BuildSession *)

\* A blueprint is [hasBlocks, blocks]; hasBlocks = FALSE is a blueprint whose
\* blocks property is undefined.
NewSession(id, buildingType, blueprint) ==
    [sessionId |-> id, buildingType |-> buildingType, blueprint |-> blueprint,
     phase |-> "planning",
     totalBlocks |-> IF blueprint.hasBlocks THEN Len(blueprint.blocks) ELSE 0,
     placedBlocks |-> 0,
     failedBlocks |-> 0, completedPhases |-> <<>>, checkpoints |-> <<>>]

\* the record createCheckpoint builds and serialises
CheckpointOf(o) ==
    [sessionId |-> o.sessionId, phase |-> o.phase,
     progress |-> [totalBlocks |-> o.totalBlocks, placedBlocks |-> o.placedBlocks,
                   failedBlocks |-> o.failedBlocks,
                   completedPhases |-> o.completedPhases],
     buildingType |-> o.buildingType, blueprint |-> o.blueprint]

\* A call context threads the session object, the disk and the history of
\* writes through the calls made inside one atomic step.
Ctx(o) == [o |-> o, d |-> disk, w |-> written, thrown |-> FALSE, ret |-> "none"]

\* createCheckpoint: push onto checkpoints, then write file number
\* checkpoints.length; fault = the write raises (after the push). The record
\* kept in memory holds { ...this.progress }: its own placedBlocks and the
\* session's two arrays ("spread")
createCheckpoint(c, fault) ==
    LET ck == CheckpointOf(c.o)
        o2 == [c.o EXCEPT !.checkpoints =
                  Append(@, [phase |-> ck.phase, placedBlocks |-> ck.progress.placedBlocks,
                             progress |-> "spread"])]
        n == Len(o2.checkpoints)
        id == c.o.sessionId
    IN IF fault
       THEN [c EXCEPT !.o = o2, !.thrown = TRUE]
       ELSE [c EXCEPT !.o = o2,
                      !.d = (<<id, n>> :> ck) @@ c.d,
                      !.w = (id :> [n |-> n, ck |-> ck]) @@ c.w]

\* advancePhase moving two entries ahead
advancePhaseSkipping(c, fault) ==
    LET currentIndex == IndexOf(phases, c.o.phase)
    IN IF currentIndex < Len(phases) - 1
       THEN LET o1 == [c.o EXCEPT !.completedPhases = Append(@, c.o.phase),
                                  !.phase = phases[currentIndex + 2]]
                c2 == createCheckpoint([c EXCEPT !.o = o1], fault)
            IN [c2 EXCEPT !.ret = IF c2.thrown THEN "none" ELSE o1.phase]
       ELSE [c EXCEPT !.ret = "complete"]

\* advancePhase recording the phase again at the end of the list
advancePhaseRecording(c, fault) ==
    LET currentIndex == IndexOf(phases, c.o.phase)
    IN IF currentIndex < Len(phases)
       THEN LET o1 == [c.o EXCEPT !.completedPhases = Append(@, c.o.phase),
                                  !.phase = phases[currentIndex + 1]]
                c2 == createCheckpoint([c EXCEPT !.o = o1], fault)
            IN [c2 EXCEPT !.ret = IF c2.thrown THEN "none" ELSE o1.phase]
       ELSE [c EXCEPT !.o.completedPhases = Append(@, c.o.phase),
                      !.ret = "complete"]

\* advancePhase
advancePhase(c, fault) ==
    LET currentIndex == IndexOf(phases, c.o.phase)
    IN IF currentIndex < Len(phases)
       THEN LET o1 == [c.o EXCEPT !.completedPhases = Append(@, c.o.phase),
                                  !.phase = phases[currentIndex + 1]]
                c2 == createCheckpoint([c EXCEPT !.o = o1], fault)
            IN [c2 EXCEPT !.ret = IF c2.thrown THEN "none" ELSE o1.phase]
       ELSE [c EXCEPT !.ret = "complete"]

\* UTF-16 code units of the part of a checkpoint file name that follows the
\* common prefix `${sessionId}_checkpoint_`: the decimal digits of n and ".json"
RECURSIVE Digits(_)
Digits(n) == IF n < 10 THEN <<48 + n>> ELSE Digits(n \div 10) \o <<48 + (n % 10)>>
NameCodes(n) == Digits(n) \o <<46, 106, 115, 111, 110>>

\* string comparison of Array.prototype.sort() without a comparator
RECURSIVE LexLess(_, _)
LexLess(a, b) ==
    IF a = <<>> THEN b # <<>>
    ELSE IF b = <<>> THEN FALSE
    ELSE IF Head(a) # Head(b) THEN Head(a) < Head(b)
    ELSE LexLess(Tail(a), Tail(b))

\* checkpointFiles.sort() then the last element
latestCheckpoint(ns) ==
    CHOOSE n \in ns : \A m \in ns \ {n} : LexLess(NameCodes(m), NameCodes(n))

FilesOf(d, id) == {k[2] : k \in {key \in DOMAIN d : key[1] = id}}

\* loadSession: the rebuilt session, given the content of the chosen file
loadSession(checkpointData) ==
    [NewSession(checkpointData.sessionId, checkpointData.buildingType,
                checkpointData.blueprint)
       EXCEPT !.phase = checkpointData.phase,
              !.totalBlocks = checkpointData.progress.totalBlocks,
              !.placedBlocks = checkpointData.progress.placedBlocks,
              !.failedBlocks = checkpointData.progress.failedBlocks,
              !.completedPhases = checkpointData.progress.completedPhases,
              !.checkpoints = <<[phase |-> checkpointData.phase,
                                 placedBlocks |-> checkpointData.progress.placedBlocks,
                                 progress |-> "same"]>>]

\* session.checkpoints[k].progress as read from a session object: the record
\* of loadSession holds the object that is session.progress ("same"), a record
\* of createCheckpoint a shallow copy of it, whose failedBlocks and
\* completedPhases are the session's arrays
progressOf(o, k) ==
    [placedBlocks |-> IF o.checkpoints[k].progress = "same" THEN o.placedBlocks
                      ELSE o.checkpoints[k].placedBlocks,
     failedBlocks |-> o.failedBlocks,
     completedPhases |-> o.completedPhases]

----------------------------------------------------------------------------
(* ConstructionGuardian *)

NoPosition == -1

NewGuardian(t) ==
    [monitoringActive |-> FALSE, progressInterval |-> FALSE, buildSession |-> 0,
     lastProgressTime |-> t, lastPosition |-> NoPosition,
     repeatedFailures |-> [k \in PhaseNames |-> 0],
     warnings |-> <<>>, failures |-> <<>>, successes |-> 0, failurePatterns |-> 0]

\* a startMonitoring that starts from fresh failure counters
startMonitoringFresh(g, o) ==
    IF g.monitoringActive THEN g
    ELSE [g EXCEPT !.monitoringActive = TRUE, !.buildSession = o,
                   !.progressInterval = TRUE,
                   !.repeatedFailures = [k \in PhaseNames |-> 0]]

startMonitoring(g, o) ==
    IF g.monitoringActive THEN g
    ELSE [g EXCEPT !.monitoringActive = TRUE, !.buildSession = o,
                   !.progressInterval = TRUE]

stopMonitoring(g) == [g EXCEPT !.monitoringActive = FALSE, !.progressInterval = FALSE]

updateProgress(g, t) == [g EXCEPT !.lastProgressTime = t]

recordSuccess(g) == [g EXCEPT !.successes = @ + 1]

\* the recovery leaving the counter as it is
recoverFromRepeatedFailureKeeping(g, failureType, t) ==
    updateProgress(g, t)

recoverFromRepeatedFailure(g, failureType, t) ==
    updateProgress([g EXCEPT !.repeatedFailures[failureType] = 0], t)

handleRepeatedFailure(g, failureType, t) ==
    LET g1 == [g EXCEPT !.repeatedFailures[failureType] = @ + 1]
    IN IF g1.repeatedFailures[failureType] >= maxRepeatedFailures
       THEN recoverFromRepeatedFailure(
                [g1 EXCEPT !.failures = Append(@, failureType)], failureType, t)
       ELSE g1

recordFailure(g, action, t) ==
    handleRepeatedFailure([g EXCEPT !.failurePatterns = @ + 1], action, t)

\* validateFunctionality dispatches 'farm' to a method the class does not
\* define, so the call raises for that building type
validateFunctionalityRaises(buildingType) == buildingType = "farm"

----------------------------------------------------------------------------
(* Inputs *)

BuildingTypes == {"hut", "farm"}

P(y) == [type |-> "oak_planks", y |-> y]
D(y) == [type |-> "oak_door", y |-> y]

Blueprint(blocks) == [hasBlocks |-> TRUE, blocks |-> blocks]
NoBlocks == [hasBlocks |-> FALSE, blocks |-> <<>>]
OneLayer == Blueprint(<<P(0)>>)
Hut == Blueprint(<<P(0), P(1), D(1), P(2)>>)

\* a hut whose wall layer holds two blocks
TwoWallHut == Blueprint(<<P(0), P(1), P(1), P(2)>>)

\* blueprints handed to build(): one layer; foundation, wall, door and roof;
\* a blueprint without a blocks array
BuildBlueprints == {OneLayer, Hut, NoBlocks}

BlockSpecs == {[type |-> t, y |-> y] : t \in {"oak_planks", "oak_door"}, y \in 0..MaxY}
Blueprints == UNION {[1..n -> BlockSpecs] : n \in 1..MaxBlocks}

Positions == {0, 1}

\* no verification in hand
NoVerifier == [pc |-> "none"]

----------------------------------------------------------------------------
(* Tasks *)

\* first, n: the index of the phase a build loop started at and the number
\* of iterations it has begun
Task(kind, st, pc, obj) ==
    [kind |-> kind, st |-> st, pc |-> pc, obj |-> obj, todo |-> <<>>, i |-> 0,
     out |-> "none", dir |-> 0, first |-> 0, n |-> 0,
     res |-> [call |-> kind, success |-> FALSE, reason |-> "", verified |-> FALSE]]

IsLoop(t) == t.kind \in {"build", "resume"}

Idle == \A k \in DOMAIN tasks : tasks[k].st # "run"

Running(i) == i \in DOMAIN tasks /\ tasks[i].st = "run"
Waiting(i) == i \in DOMAIN tasks /\ tasks[i].st = "io" /\ Idle

NumLoops == Cardinality({k \in DOMAIN tasks : IsLoop(tasks[k])})

FaultChoices == IF faults < MaxFaults THEN BOOLEAN ELSE {FALSE}

Charge(thrown) == faults' = faults + (IF thrown THEN 1 ELSE 0)

\* commit a call context: the session object, the disk and the write history
Store(obj, c) ==
    /\ Len(c.o.checkpoints) <= MaxCkpts
    /\ sess' = [sess EXCEPT ![obj] = c.o]
    /\ disk' = c.d
    /\ written' = c.w

Result(call, success, reason, verified) ==
    [call |-> call, success |-> success, reason |-> reason, verified |-> verified]

AdvCall(obj, from, c) ==
    [n |-> adv.n + 1, obj |-> obj, from |-> from,
     ret |-> IF c.thrown THEN "thrown" ELSE c.ret]

----------------------------------------------------------------------------
(* Initial state: agent, guardian and manager constructed, no session yet *)

Init ==
    /\ sess = <<>>
    /\ currentSession = 0
    /\ isBuilding = FALSE
    /\ disk = <<>>
    /\ guard = NewGuardian(0)
    /\ tasks = <<>>
    /\ results = <<>>
    /\ now = 0
    /\ botPos = 0
    /\ faults = 0
    /\ written = <<>>
    /\ adv = [n |-> 0, obj |-> 0, from |-> "none", ret |-> "none"]
    /\ ncalls = 0
    /\ still = 0
    /\ cls = [bp |-> <<>>, k |-> 0, classes |-> {}]
    /\ ver = NoVerifier

----------------------------------------------------------------------------
(* BuildManager: external calls *)

\* validatePreBuildConditions, given what its four checks return
CheckTypes == {"materials", "terrain", "environment", "tools"}

\* a gate that one passing check opens
validatePreBuildConditionsAny(validations) ==
    [passed |-> \E t \in CheckTypes : validations[t],
     warnings |-> {t \in CheckTypes : ~validations[t]}]

validatePreBuildConditions(validations) ==
    [passed |-> \A t \in CheckTypes : validations[t],
     warnings |-> {t \in CheckTypes : ~validations[t]}]

CanCall == Idle /\ Len(results) + NumLoops < MaxCalls /\ Len(tasks) < MaxTasks

\* build(): the pre-build gate, then session, monitoring and the build loop;
\* the finally block runs on the early return as well
Build(buildingType, blueprint, passed, force) ==
    /\ CanCall
    /\ IF ~passed /\ ~force
       THEN /\ results' = Append(results,
                   Result("build", FALSE, "Pre-build validation failed", FALSE))
            /\ guard' = stopMonitoring(guard)
            /\ isBuilding' = FALSE
            /\ UNCHANGED <<sess, currentSession, tasks>>
       ELSE /\ sess' = Append(sess, NewSession(Len(sess) + 1, buildingType, blueprint))
            /\ currentSession' = Len(sess) + 1
            /\ isBuilding' = TRUE
            /\ guard' = startMonitoring(guard, Len(sess) + 1)
            /\ tasks' = Append(tasks, Task("build", "run", "start", 0))
            /\ UNCHANGED results
    /\ still' = IF guard'.monitoringActive /\ ~guard.monitoringActive THEN now ELSE still
    /\ UNCHANGED <<disk, now, botPos, faults, written, adv, ncalls, cls, ver>>

\* resumeBuild with the session test moved behind startMonitoring
ResumeMonitoringFirst(sessionId) ==
    /\ CanCall
    /\ FilesOf(disk, sessionId) = {}
    /\ currentSession' = 0
    /\ results' = Append(results, Result("resume", FALSE, "Session not found", FALSE))
    /\ guard' = stopMonitoring(startMonitoring(guard, 0))
    /\ isBuilding' = FALSE
    /\ UNCHANGED <<sess, tasks, still, disk, now, botPos, faults, written, adv,
                   ncalls, cls, ver>>

\* resumeBuild(sessionId)
Resume(sessionId) ==
    /\ CanCall
    /\ LET files == FilesOf(disk, sessionId)
       IN IF files = {}
          THEN /\ currentSession' = 0
               /\ results' = Append(results,
                      Result("resume", FALSE, "Session not found", FALSE))
               /\ guard' = stopMonitoring(guard)
               /\ isBuilding' = FALSE
               /\ UNCHANGED <<sess, tasks>>
          ELSE /\ sess' = Append(sess,
                      loadSession(disk[<<sessionId, latestCheckpoint(files)>>]))
               /\ currentSession' = Len(sess) + 1
               /\ isBuilding' = TRUE
               /\ guard' = startMonitoring(guard, Len(sess) + 1)
               /\ tasks' = Append(tasks, Task("resume", "run", "start", 0))
               /\ UNCHANGED results
    /\ still' = IF guard'.monitoringActive /\ ~guard.monitoringActive THEN now ELSE still
    /\ UNCHANGED <<disk, now, botPos, faults, written, adv, ncalls, cls, ver>>

\* stopBuild() on an active build: flag, interruption checkpoint, monitor off
Stop(fault) ==
    /\ Idle
    /\ isBuilding /\ currentSession # 0
    /\ isBuilding' = FALSE
    /\ LET c == createCheckpoint(Ctx(sess[currentSession]), fault)
       IN /\ Store(currentSession, c)
          /\ Charge(c.thrown)
          /\ guard' = IF c.thrown THEN guard ELSE stopMonitoring(guard)
    /\ UNCHANGED <<currentSession, tasks, results, now, botPos, adv, ncalls, still, cls, ver>>

----------------------------------------------------------------------------
(* BuildManager.executeBuildSession and the phase handlers *)

SetTask(i, t) == tasks' = [tasks EXCEPT ![i] = t]

\* first step of a call after its session was created or loaded
Start(i) ==
    /\ Running(i) /\ tasks[i].pc = "start"
    /\ SetTask(i, [tasks[i] EXCEPT !.pc = "loop", !.first =
                      IF currentSession = 0 THEN 0
                      ELSE IndexOf(phases, sess[currentSession].phase)])
    /\ UNCHANGED <<sess, currentSession, isBuilding, disk, guard, results, now,
                   botPos, faults, written, adv, ncalls, still, cls, ver>>

\* the while condition
LoopHead(i) ==
    /\ Running(i) /\ tasks[i].pc = "loop"
    /\ SetTask(i, IF currentSession = 0
                  THEN [tasks[i] EXCEPT !.pc = "outer"]
                  ELSE IF sess[currentSession].phase # "complete" /\ isBuilding
                  THEN [tasks[i] EXCEPT !.pc = "exec", !.obj = currentSession,
                                        !.n = @ + 1]
                  ELSE [tasks[i] EXCEPT !.pc = "final"])
    /\ UNCHANGED <<sess, currentSession, isBuilding, disk, guard, results, now,
                   botPos, faults, written, adv, ncalls, still, cls, ver>>

HandlerOut(c) == IF c.thrown THEN "throw" ELSE "true"

\* executeCurrentPhase up to the handler's first world call, or to its end
\* when it makes none
ExecPhase(i, fault) ==
    /\ Running(i) /\ tasks[i].pc = "exec"
    /\ LET t == tasks[i]
           o == sess[t.obj]
           todo == PhaseBlocks(o.blueprint.blocks, o.phase)
       IN IF /\ ~o.blueprint.hasBlocks
             /\ o.phase \in PlacementPhases \cup {"verification"}
          THEN \* blocks.filter, or the loop of validateStructure, raises
               /\ SetTask(i, [t EXCEPT !.pc = "hret", !.out = "throw"])
               /\ UNCHANGED <<sess, disk, written, faults>>
          ELSE IF o.phase = "verification"
          THEN /\ SetTask(i, [t EXCEPT !.st = "io", !.pc = "verify"])
               /\ UNCHANGED <<sess, disk, written, faults>>
          ELSE IF todo # <<>>
          THEN /\ SetTask(i, [t EXCEPT !.st = "io", !.pc = "place",
                                       !.todo = todo, !.i = 1])
               /\ UNCHANGED <<sess, disk, written, faults>>
          ELSE LET c == createCheckpoint(Ctx(o), fault)
               IN /\ Store(t.obj, c)
                  /\ Charge(c.thrown)
                  /\ SetTask(i, [t EXCEPT !.pc = "hret", !.out = HandlerOut(c)])
    /\ UNCHANGED <<currentSession, isBuilding, guard, results, now, botPos, adv, ncalls, still, cls, ver>>

\* does the handler checkpoint after the block it has just placed?
MidCheckpoint(o, t) ==
    LET bp == o.blueprint.blocks
    IN \/ /\ o.phase = "foundation"
          /\ (o.placedBlocks + 1) % checkpointEvery = 0
       \/ /\ o.phase = "walls"
          /\ \/ t.i = Len(t.todo)
             \/ /\ t.i < Len(t.todo)
                /\ bp[t.todo[t.i + 1]].y # bp[t.todo[t.i]].y

\* a placeBlockWithVerification that records a failed placement twice
placeBlockRecordedTwice(o, ok) ==
    [o EXCEPT !.failedBlocks = @ + (IF ok THEN 0 ELSE 2)]

\* placeBlockWithVerification: a placement that raised, or whose verification
\* failed, is one more entry of progress.failedBlocks; nothing is raised
placeBlockWithVerification(o, ok) ==
    [o EXCEPT !.failedBlocks = @ + (IF ok THEN 0 ELSE 1)]

\* placeBlockWithVerification returns: count the block, checkpoint as the
\* handler prescribes, then the next placement or the handler's end
PlaceDone(i, ok, f1, f2) ==
    /\ Waiting(i) /\ tasks[i].pc = "place"
    /\ LET t == tasks[i]
           o == sess[t.obj]
           o1 == [placeBlockWithVerification(o, ok) EXCEPT !.placedBlocks = @ + 1]
           c0 == [Ctx(o) EXCEPT !.o = o1]
           c1 == IF MidCheckpoint(o, t) THEN createCheckpoint(c0, f1) ELSE c0
           c2 == IF c1.thrown \/ t.i < Len(t.todo) THEN c1 ELSE createCheckpoint(c1, f2)
       IN /\ Store(t.obj, c2)
          /\ Charge(c2.thrown)
          /\ SetTask(i, IF c2.thrown \/ t.i = Len(t.todo)
                        THEN [t EXCEPT !.st = "run", !.pc = "hret",
                                       !.out = HandlerOut(c2)]
                        ELSE [t EXCEPT !.i = @ + 1])
    /\ UNCHANGED <<currentSession, isBuilding, guard, results, now, botPos, adv, ncalls, still, cls, ver>>

\* executeVerification: the verifier calls return or raise, then the checkpoint
VerifyDone(i, fault) ==
    /\ Waiting(i) /\ tasks[i].pc = "verify"
    /\ LET t == tasks[i]
           o == sess[t.obj]
       IN IF validateFunctionalityRaises(o.buildingType)
          THEN /\ SetTask(i, [t EXCEPT !.st = "run", !.pc = "hret", !.out = "throw"])
               /\ UNCHANGED <<sess, disk, written, faults>>
          ELSE LET c == createCheckpoint(Ctx(o), fault)
               IN /\ Store(t.obj, c)
                  /\ Charge(c.thrown)
                  /\ SetTask(i, [t EXCEPT !.st = "run", !.pc = "hret",
                                          !.out = HandlerOut(c)])
    /\ UNCHANGED <<currentSession, isBuilding, guard, results, now, botPos, adv, ncalls, still, cls, ver>>

\* the build loop after the handler returned true: progress, success
\* pattern, advancePhase; a raise anywhere in the try block goes to catch
PhaseSucceeded(i, fault) ==
    /\ Running(i) /\ tasks[i].pc = "hret"
    /\ IsLoop(tasks[i]) /\ tasks[i].out = "true"
    /\ IF currentSession = 0
       THEN /\ SetTask(i, [tasks[i] EXCEPT !.pc = "catch"])
            /\ guard' = updateProgress(guard, now)
            /\ UNCHANGED <<sess, disk, written, faults, adv>>
       ELSE LET o == sess[currentSession]
                c == advancePhase(Ctx(o), fault)
            IN /\ Store(currentSession, c)
               /\ Charge(c.thrown)
               /\ guard' = recordSuccess(updateProgress(guard, now))
               /\ adv' = AdvCall(currentSession, o.phase, c)
               /\ SetTask(i, [tasks[i] EXCEPT !.pc =
                      IF c.thrown THEN "catch"
                      ELSE IF c.ret = "complete" THEN "final" ELSE "loop"])
    /\ UNCHANGED <<currentSession, isBuilding, results, now, botPos, ncalls, still, cls, ver>>

\* the handler raised: control reaches the catch block of the loop body
PhaseThrew(i) ==
    /\ Running(i) /\ tasks[i].pc = "hret"
    /\ IsLoop(tasks[i]) /\ tasks[i].out = "throw"
    /\ SetTask(i, [tasks[i] EXCEPT !.pc = "catch"])
    /\ UNCHANGED <<sess, currentSession, isBuilding, disk, guard, results, now,
                   botPos, faults, written, adv, ncalls, still, cls, ver>>

\* catch block: failure pattern, then handlePhaseFailure up to its backoff
Catch(i, fault) ==
    /\ Running(i) /\ tasks[i].pc = "catch"
    /\ IF currentSession = 0
       THEN /\ SetTask(i, [tasks[i] EXCEPT !.pc = "outer"])
            /\ UNCHANGED <<sess, disk, written, faults, guard>>
       ELSE LET o == sess[currentSession]
                c == createCheckpoint(Ctx(o), fault)
            IN /\ guard' = recordFailure(guard, o.phase, now)
               /\ Store(currentSession, c)
               /\ Charge(c.thrown)
               /\ SetTask(i, IF c.thrown
                             THEN [tasks[i] EXCEPT !.pc = "outer"]
                             ELSE [tasks[i] EXCEPT !.st = "io", !.pc = "backoff"])
    /\ UNCHANGED <<currentSession, isBuilding, results, now, botPos, adv, ncalls, still, cls, ver>>

\* a timer fires and its waiter goes on: handlePhaseFailure after the backoff
\* advances anyway; performCompleteVerification after its pause returns and
\* the final report is built
TimerDone(i, fault) ==
    /\ Waiting(i) /\ tasks[i].pc \in {"backoff", "postverify"}
    /\ IF currentSession = 0
       THEN /\ SetTask(i, [tasks[i] EXCEPT !.st = "run", !.pc = "outer"])
            /\ UNCHANGED <<sess, disk, written, faults, adv>>
       ELSE IF tasks[i].pc = "postverify"
       THEN /\ SetTask(i, [tasks[i] EXCEPT !.st = "run", !.pc = "finally",
                              !.res = Result(tasks[i].kind, TRUE, "", TRUE)])
            /\ UNCHANGED <<sess, disk, written, faults, adv>>
       ELSE LET o == sess[currentSession]
                c == advancePhase(Ctx(o), fault)
            IN /\ Store(currentSession, c)
               /\ Charge(c.thrown)
               /\ adv' = AdvCall(currentSession, o.phase, c)
               /\ SetTask(i, [tasks[i] EXCEPT !.st = "run",
                                 !.pc = IF c.thrown THEN "outer" ELSE "loop"])
    /\ UNCHANGED <<currentSession, isBuilding, guard, results, now, botPos, ncalls, still, cls, ver>>

\* after the loop: post-build verification when the phase is 'complete',
\* the 'Construction incomplete' result otherwise
Final(i) ==
    /\ Running(i) /\ tasks[i].pc = "final"
    /\ SetTask(i, IF currentSession = 0
                  THEN [tasks[i] EXCEPT !.pc = "outer"]
                  ELSE IF sess[currentSession].phase = "complete"
                  THEN [tasks[i] EXCEPT !.st = "io", !.pc = "postverify"]
                  ELSE [tasks[i] EXCEPT !.pc = "finally", !.res =
                          Result(tasks[i].kind, FALSE, "Construction incomplete", FALSE)])
    /\ UNCHANGED <<sess, currentSession, isBuilding, disk, guard, results, now,
                   botPos, faults, written, adv, ncalls, still, cls, ver>>

\* catch block of build() / resumeBuild(); build() checkpoints the
\* interruption, and a raise of that checkpoint leaves the call
Outer(i, fault) ==
    /\ Running(i) /\ tasks[i].pc = "outer"
    /\ IF tasks[i].kind = "build" /\ currentSession # 0
       THEN LET c == createCheckpoint(Ctx(sess[currentSession]), fault)
            IN /\ Store(currentSession, c)
               /\ Charge(c.thrown)
               /\ SetTask(i, [tasks[i] EXCEPT !.pc = "finally", !.res =
                      Result("build", FALSE, IF c.thrown THEN "raised" ELSE "error", FALSE)])
       ELSE /\ SetTask(i, [tasks[i] EXCEPT !.pc = "finally", !.res =
                      Result(tasks[i].kind, FALSE, "error", FALSE)])
            /\ UNCHANGED <<sess, disk, written, faults>>
    /\ UNCHANGED <<currentSession, isBuilding, guard, results, now, botPos, adv, ncalls, still, cls, ver>>

\* finally block: monitor off, flag off, the call returns
Finally(i) ==
    /\ Running(i) /\ tasks[i].pc = "finally"
    /\ guard' = stopMonitoring(guard)
    /\ isBuilding' = FALSE
    /\ results' = Append(results, tasks[i].res)
    /\ tasks' = RemoveAt(tasks, i)
    /\ UNCHANGED <<sess, currentSession, disk, now, botPos, faults, written, adv, ncalls, still, cls, ver>>

----------------------------------------------------------------------------
(* ConstructionGuardian: the progress monitor and its recoveries *)

\* positions are points of a line one unit apart
Distance(p, q) == IF p >= q THEN p - q ELSE q - p

\* handleStagnation up to the recovery's call of executeCurrentPhase
handleStagnation(g, t) ==
    updateProgress([g EXCEPT !.warnings = Append(@, "progress_stagnation")], t)

\* handlePositionStagnation up to the recovery's first move command
handlePositionStagnation(g) ==
    [g EXCEPT !.warnings = Append(@, "position_stagnation")]

\* the callback of startProgressMonitoring, evaluated at time t
Stagnant(g, t) == t - g.lastProgressTime > maxStagnantTime

Stuck(g, t, pos) ==
    /\ g.lastPosition # NoPosition
    /\ Distance(pos, g.lastPosition) < 1
    /\ t - g.lastProgressTime > stuckTime

\* one polling period passes; the progress monitor runs if its timer is set;
\* at most limit call chains are followed at a time
Tick(limit) ==
    /\ Idle
    /\ now < MaxTicks * progressPeriod
    /\ now' = now + progressPeriod
    /\ IF guard.progressInterval /\ guard.monitoringActive
       THEN LET stagnant == Stagnant(guard, now')
                stuck == Stuck(guard, now', botPos)
                g1 == IF stagnant THEN handleStagnation(guard, now') ELSE guard
                g2 == IF stuck THEN handlePositionStagnation(g1) ELSE g1
                recover == IF stagnant /\ guard.buildSession # 0
                           THEN <<Task("recover", "run", "exec", guard.buildSession)>>
                           ELSE <<>>
                unstick == IF stuck
                           THEN <<[Task("stuck", "io", "goto", 0) EXCEPT !.dir = 1]>>
                           ELSE <<>>
            IN /\ guard' = [g2 EXCEPT !.lastPosition = botPos]
               /\ tasks' = tasks \o recover \o unstick
               /\ Len(tasks') <= limit
       ELSE UNCHANGED <<guard, tasks>>
    /\ UNCHANGED <<sess, currentSession, isBuilding, disk, results, botPos, faults,
                   written, adv, ncalls, still, cls, ver>>

\* recoverFromStagnation, or a direct caller of executeCurrentPhase: the
\* handler returned or raised
RecoveryDone(i) ==
    /\ Running(i) /\ tasks[i].pc = "hret" /\ tasks[i].kind \in {"recover", "call"}
    /\ tasks' = RemoveAt(tasks, i)
    /\ UNCHANGED <<sess, currentSession, isBuilding, disk, guard, results, now,
                   botPos, faults, written, adv, ncalls, still, cls, ver>>

\* a recoverFromStuck that resets the progress timer after every move command
StuckDoneResetEach(i, ok) ==
    /\ Waiting(i) /\ tasks[i].pc = "goto"
    /\ guard' = updateProgress(guard, now)
    /\ IF ok \/ tasks[i].dir = 4
       THEN tasks' = RemoveAt(tasks, i)
       ELSE SetTask(i, [tasks[i] EXCEPT !.dir = @ + 1])
    /\ botPos' = IF ok THEN 1 - botPos ELSE botPos
    /\ still' = IF ok THEN now ELSE still
    /\ UNCHANGED <<sess, currentSession, isBuilding, disk, results, now, faults,
                   written, adv, ncalls, cls, ver>>

\* recoverFromStuck: one move command returned (ok) or raised
StuckDone(i, ok) ==
    /\ Waiting(i) /\ tasks[i].pc = "goto"
    /\ IF ok \/ tasks[i].dir = 4
       THEN /\ guard' = updateProgress(guard, now)
            /\ tasks' = RemoveAt(tasks, i)
       ELSE /\ SetTask(i, [tasks[i] EXCEPT !.dir = @ + 1])
            /\ UNCHANGED guard
    /\ botPos' = IF ok THEN 1 - botPos ELSE botPos
    /\ still' = IF ok THEN now ELSE still
    /\ UNCHANGED <<sess, currentSession, isBuilding, disk, results, now, faults,
                   written, adv, ncalls, cls, ver>>

\* the world moves the bot
Move(p) ==
    /\ Idle
    /\ p # botPos
    /\ botPos' = p
    /\ still' = now
    /\ UNCHANGED <<sess, currentSession, isBuilding, disk, guard, tasks, results,
                   now, faults, written, adv, ncalls, cls, ver>>

----------------------------------------------------------------------------
(* Specifications *)

\* the steps of the manager's calls and of the phase handlers
\* they raise only where a fault is injected, and only then does a raise
\* reach the catch block of build() / resumeBuild()
LoopStep(F) ==
    \/ \E i \in DOMAIN tasks : Start(i)
    \/ \E i \in DOMAIN tasks : LoopHead(i)
    \/ \E i \in DOMAIN tasks, f \in F : ExecPhase(i, f)
    \/ \E i \in DOMAIN tasks, f \in F : VerifyDone(i, f)
    \/ \E i \in DOMAIN tasks, f \in F : PhaseSucceeded(i, f)
    \/ \E i \in DOMAIN tasks : PhaseThrew(i)
    \/ \E i \in DOMAIN tasks, f \in F : Catch(i, f)
    \/ \E i \in DOMAIN tasks, f \in F : TimerDone(i, f)
    \/ \E i \in DOMAIN tasks : Final(i)
    \/ \E i \in DOMAIN tasks : Finally(i)

\* The manager on its own: calls made one after the other, every building
\* type and blueprint, injected faults; the clock does not advance, so the
\* guardian's timers never fire.
Next ==
    \/ /\ tasks = <<>>
       /\ \E bt \in BuildingTypes, bp \in BuildBlueprints, passed \in BOOLEAN,
             force \in BOOLEAN : Build(bt, bp, passed, force)
    \/ /\ tasks = <<>>
       /\ \E id \in 1..MaxCalls : Resume(id)
    \/ \E f \in FaultChoices : Stop(f)
    \/ \E i \in DOMAIN tasks, f1 \in FaultChoices, f2 \in FaultChoices :
          PlaceDone(i, TRUE, f1, f2)
    \/ LoopStep(FaultChoices)
    \/ \E i \in DOMAIN tasks, f \in FaultChoices : Outer(i, f)

Spec == Init /\ [][Next]_vars

\* One build() call under the clock: the progress monitor, its recoveries
\* and stopBuild interleave with the build loop; the handlers fail where the
\* blueprint has no blocks array, and the moves of an unstick recovery succeed.
\* A waiter on a timer may be resumed late.
NextMonitor ==
    \/ /\ sess = <<>>
       /\ \E bp \in {OneLayer, NoBlocks} : Build("hut", bp, TRUE, FALSE)
    \/ Stop(FALSE)
    \/ \E i \in DOMAIN tasks : PlaceDone(i, TRUE, FALSE, FALSE)
    \/ LoopStep({FALSE})
    \/ Tick(MaxTasks)
    \/ \E i \in DOMAIN tasks : RecoveryDone(i)
    \/ \E i \in DOMAIN tasks : StuckDone(i, TRUE)
    \/ \E p \in Positions : Move(p)

SpecMonitor == Init /\ [][NextMonitor]_vars

\* One build() of a hut with two wall blocks and stopBuild at any moment;
\* placements succeed or fail, checkpoint writes succeed, so that no handler
\* raises and the catch block is not entered.
NextStop ==
    \/ /\ sess = <<>>
       /\ Build("hut", TwoWallHut, TRUE, FALSE)
    \/ Stop(FALSE)
    \/ \E i \in DOMAIN tasks, ok \in BOOLEAN : PlaceDone(i, ok, FALSE, FALSE)
    \/ \E i \in DOMAIN tasks : Start(i)
    \/ \E i \in DOMAIN tasks : LoopHead(i)
    \/ \E i \in DOMAIN tasks : ExecPhase(i, FALSE)
    \/ \E i \in DOMAIN tasks : VerifyDone(i, FALSE)
    \/ \E i \in DOMAIN tasks : PhaseSucceeded(i, FALSE)
    \/ \E i \in DOMAIN tasks : Final(i)
    \/ \E i \in DOMAIN tasks : Finally(i)

SpecStop == Init /\ [][NextStop]_vars

----------------------------------------------------------------------------
(* A BuildSession driven through its interface: executeCurrentPhase and
   advancePhase called in any order, also while a handler is in flight;
   placements succeed or fail, checkpoint writes succeed *)

\* One build() of a hut, and resumeBuild() of an id nothing was ever saved
\* under, called at any moment the build waits; no faults.
NextResume ==
    \/ /\ sess = <<>>
       /\ \E bp \in {OneLayer, Hut} : Build("hut", bp, TRUE, FALSE)
    \/ Resume(MaxCalls)
    \/ \E i \in DOMAIN tasks : PlaceDone(i, TRUE, FALSE, FALSE)
    \/ \E i \in DOMAIN tasks : Start(i)
    \/ \E i \in DOMAIN tasks : LoopHead(i)
    \/ \E i \in DOMAIN tasks : ExecPhase(i, FALSE)
    \/ \E i \in DOMAIN tasks : VerifyDone(i, FALSE)
    \/ \E i \in DOMAIN tasks : PhaseSucceeded(i, FALSE)
    \/ \E i \in DOMAIN tasks : Catch(i, FALSE)
    \/ \E i \in DOMAIN tasks : Final(i)
    \/ \E i \in DOMAIN tasks : Outer(i, FALSE)
    \/ \E i \in DOMAIN tasks : Finally(i)

SpecResume == Init /\ [][NextResume]_vars

\* One build() of a one-block hut on a disk where any checkpoint write may
\* fail, however many have failed before.
NextFaults ==
    \/ /\ sess = <<>>
       /\ Build("hut", OneLayer, TRUE, FALSE)
    \/ \E i \in DOMAIN tasks, f1 \in BOOLEAN, f2 \in BOOLEAN : PlaceDone(i, TRUE, f1, f2)
    \/ LoopStep(BOOLEAN)
    \/ \E i \in DOMAIN tasks, f \in BOOLEAN : Outer(i, f)

SpecFaults == Init /\ [][NextFaults]_vars

\* build() called again while an earlier build() is still running; no faults,
\* the clock does not advance.
NextOverlap ==
    \/ Build("hut", OneLayer, TRUE, FALSE)
    \/ \E i \in DOMAIN tasks : PlaceDone(i, TRUE, FALSE, FALSE)
    \/ \E i \in DOMAIN tasks : Start(i)
    \/ \E i \in DOMAIN tasks : LoopHead(i)
    \/ \E i \in DOMAIN tasks : ExecPhase(i, FALSE)
    \/ \E i \in DOMAIN tasks : VerifyDone(i, FALSE)
    \/ \E i \in DOMAIN tasks : PhaseSucceeded(i, FALSE)
    \/ \E i \in DOMAIN tasks : Final(i)
    \/ \E i \in DOMAIN tasks : Finally(i)

SpecOverlap == Init /\ [][NextOverlap]_vars

\* build() calls of a hut behind the pre-build gate, for every outcome of the
\* four checks and with or without force; no faults.
NextGate ==
    \/ /\ tasks = <<>>
       /\ \E bp \in {OneLayer, Hut}, validations \in [CheckTypes -> BOOLEAN],
             force \in BOOLEAN :
             Build("hut", bp, validatePreBuildConditions(validations).passed, force)
    \/ \E i \in DOMAIN tasks : PlaceDone(i, TRUE, FALSE, FALSE)
    \/ \E i \in DOMAIN tasks : Start(i)
    \/ \E i \in DOMAIN tasks : LoopHead(i)
    \/ \E i \in DOMAIN tasks : ExecPhase(i, FALSE)
    \/ \E i \in DOMAIN tasks : VerifyDone(i, FALSE)
    \/ \E i \in DOMAIN tasks : PhaseSucceeded(i, FALSE)
    \/ \E i \in DOMAIN tasks : Final(i)
    \/ \E i \in DOMAIN tasks : Finally(i)

SpecGate == Init /\ [][NextGate]_vars

InitSession ==
    /\ \E bt \in BuildingTypes, bp \in BuildBlueprints :
          sess = <<NewSession(1, bt, bp)>>
    /\ currentSession = 0 /\ isBuilding = FALSE /\ disk = <<>>
    /\ guard = NewGuardian(0) /\ tasks = <<>> /\ results = <<>> /\ now = 0
    /\ botPos = 0 /\ faults = 0 /\ written = <<>>
    /\ adv = [n |-> 0, obj |-> 0, from |-> "none", ret |-> "none"]
    /\ ncalls = 0
    /\ still = 0
    /\ cls = [bp |-> <<>>, k |-> 0, classes |-> {}]
    /\ ver = NoVerifier

AdvancePhaseCall(fault) ==
    /\ Idle /\ ncalls < MaxApiCalls
    /\ ncalls' = ncalls + 1
    /\ LET c == advancePhase(Ctx(sess[1]), fault)
       IN /\ Store(1, c)
          /\ Charge(c.thrown)
          /\ adv' = AdvCall(1, sess[1].phase, c)
    /\ UNCHANGED <<currentSession, isBuilding, guard, tasks, results, now, botPos,
                   still, cls, ver>>

ExecuteCurrentPhaseCall ==
    /\ Idle /\ ncalls < MaxApiCalls /\ Len(tasks) < MaxTasks
    /\ ncalls' = ncalls + 1
    /\ tasks' = Append(tasks, Task("call", "run", "exec", 1))
    /\ UNCHANGED <<sess, currentSession, isBuilding, disk, guard, results, now,
                   botPos, faults, written, adv, still, cls, ver>>

NextSession ==
    \/ AdvancePhaseCall(FALSE)
    \/ ExecuteCurrentPhaseCall
    \/ \E i \in DOMAIN tasks : ExecPhase(i, FALSE)
    \/ \E i \in DOMAIN tasks, ok \in BOOLEAN : PlaceDone(i, ok, FALSE, FALSE)
    \/ \E i \in DOMAIN tasks : VerifyDone(i, FALSE)
    \/ \E i \in DOMAIN tasks : RecoveryDone(i)

SpecSession == InitSession /\ [][NextSession]_vars

----------------------------------------------------------------------------
(* A ConstructionGuardian driven through its interface, monitoring a fresh
   session: the calls the manager makes, in any order, under the clock *)

FailureKinds == {"planning", "foundation"}

InitGuardian ==
    /\ sess = <<NewSession(1, "hut", OneLayer)>>
    /\ currentSession = 0 /\ isBuilding = FALSE /\ disk = <<>>
    /\ guard = NewGuardian(0) /\ tasks = <<>> /\ results = <<>> /\ now = 0
    /\ botPos = 0 /\ faults = 0 /\ written = <<>>
    /\ adv = [n |-> 0, obj |-> 0, from |-> "none", ret |-> "none"]
    /\ ncalls = 0
    /\ still = 0
    /\ cls = [bp |-> <<>>, k |-> 0, classes |-> {}]
    /\ ver = NoVerifier

GuardianCall(g) ==
    /\ Idle
    /\ guard' = g
    /\ UNCHANGED <<sess, currentSession, isBuilding, disk, tasks, results, now,
                   botPos, faults, written, adv, cls, ver>>

StartMonitoringCall ==
    /\ ~guard.monitoringActive
    /\ GuardianCall(startMonitoring(guard, 1))
    /\ still' = now
    /\ UNCHANGED ncalls

StopMonitoringCall ==
    /\ guard.monitoringActive
    /\ GuardianCall(stopMonitoring(guard))
    /\ UNCHANGED <<ncalls, still>>

UpdateProgressCall ==
    /\ guard.lastProgressTime # now
    /\ GuardianCall(updateProgress(guard, now))
    /\ UNCHANGED <<ncalls, still>>

RecordFailureCall(action) ==
    /\ ncalls < MaxApiCalls
    /\ ncalls' = ncalls + 1
    /\ GuardianCall(recordFailure(guard, action, now))
    /\ UNCHANGED still

RecordSuccessCall ==
    /\ ncalls < MaxApiCalls
    /\ ncalls' = ncalls + 1
    /\ GuardianCall(recordSuccess(guard))
    /\ UNCHANGED still

\* the progress monitor and its recoveries, switched on and off at will
NextGuardian ==
    \/ StartMonitoringCall
    \/ StopMonitoringCall
    \/ UpdateProgressCall
    \/ Tick(MaxUnstick)
    \/ \E i \in DOMAIN tasks : ExecPhase(i, FALSE)
    \/ \E i \in DOMAIN tasks : RecoveryDone(i)
    \/ \E i \in DOMAIN tasks, ok \in BOOLEAN : StuckDone(i, ok)
    \/ \E p \in Positions : Move(p)

SpecGuardian == InitGuardian /\ [][NextGuardian]_vars

\* the monitor switched on and off while failures and successes are recorded
\* and its stagnation recovery runs
NextCounters ==
    \/ StartMonitoringCall
    \/ StopMonitoringCall
    \/ UpdateProgressCall
    \/ \E k \in FailureKinds : RecordFailureCall(k)
    \/ RecordSuccessCall
    \/ Tick(MaxCalls)
    \/ \E i \in DOMAIN tasks : ExecPhase(i, FALSE)
    \/ \E i \in DOMAIN tasks : RecoveryDone(i)
    \/ \E i \in DOMAIN tasks : StuckDone(i, TRUE)

SpecCounters == InitGuardian /\ [][NextCounters]_vars

\* the monitor switched on at any time after the guardian's construction, the
\* bot standing where it is: no move of an unstick recovery succeeds
NextActivation ==
    \/ StartMonitoringCall
    \/ StopMonitoringCall
    \/ UpdateProgressCall
    \/ Tick(MaxTasks)
    \/ \E i \in DOMAIN tasks : ExecPhase(i, FALSE)
    \/ \E i \in DOMAIN tasks : RecoveryDone(i)
    \/ \E i \in DOMAIN tasks : StuckDone(i, FALSE)

SpecActivation == InitGuardian /\ [][NextActivation]_vars

\* the pattern recorder: successes and failures of two kinds reported in any
\* order as time passes, the monitor being off
NextFailures ==
    \/ UpdateProgressCall
    \/ \E k \in FailureKinds : RecordFailureCall(k)
    \/ RecordSuccessCall
    \/ Tick(MaxTasks)

SpecFailures == InitGuardian /\ [][NextFailures]_vars

----------------------------------------------------------------------------
(* executeWalls on its own: a session taken through advancePhase to the walls
   phase, where executeCurrentPhase is called once; every blueprint of up to
   MaxWallBlocks blocks of one type on levels 0..MaxWallY, in every insertion
   order. *)

WallBlueprints ==
    UNION {[1..n -> {[type |-> "oak_planks", y |-> y] : y \in 0..MaxWallY}] :
              n \in 1..MaxWallBlocks}

InitWalls ==
    /\ \E bp \in WallBlueprints : sess = <<NewSession(1, "hut", Blueprint(bp))>>
    /\ currentSession = 0 /\ isBuilding = FALSE /\ disk = <<>>
    /\ guard = NewGuardian(0) /\ tasks = <<>> /\ results = <<>> /\ now = 0
    /\ botPos = 0 /\ faults = 0 /\ written = <<>>
    /\ adv = [n |-> 0, obj |-> 0, from |-> "none", ret |-> "none"]
    /\ ncalls = 0
    /\ still = 0
    /\ cls = [bp |-> <<>>, k |-> 0, classes |-> {}]
    /\ ver = NoVerifier

NextWalls ==
    \/ /\ sess[1].phase # "walls"
       /\ AdvancePhaseCall(FALSE)
    \/ /\ sess[1].phase = "walls" /\ tasks = <<>>
       /\ ncalls = IndexOf(phases, "walls") - 1
       /\ ExecuteCurrentPhaseCall
    \/ \E i \in DOMAIN tasks : ExecPhase(i, FALSE)
    \/ \E i \in DOMAIN tasks, ok \in BOOLEAN : PlaceDone(i, ok, FALSE, FALSE)
    \/ \E i \in DOMAIN tasks : RecoveryDone(i)

SpecWalls == InitWalls /\ [][NextWalls]_vars

----------------------------------------------------------------------------
(* executeFoundation on its own, under every pattern of placements that
   succeed, raise or fail their verification *)

MaxPlacings == 3

\* what one placeBlockWithVerification meets: the block is placed and
\* verified, a call in the try block raises, or the verification fails
Outcomes == {"placed", "raised", "unverified"}

PlacingBlueprints ==
    UNION {[1..n -> {[type |-> "stone", y |-> y] : y \in 0..MaxY}] :
              n \in 1..MaxPlacings}

InitPlacing ==
    /\ \E bp \in PlacingBlueprints : sess = <<NewSession(1, "hut", Blueprint(bp))>>
    /\ currentSession = 0 /\ isBuilding = FALSE /\ disk = <<>>
    /\ guard = NewGuardian(0) /\ tasks = <<>> /\ results = <<>> /\ now = 0
    /\ botPos = 0 /\ faults = 0 /\ written = <<>>
    /\ adv = [n |-> 0, obj |-> 0, from |-> "none", ret |-> "none"]
    /\ ncalls = 0
    /\ still = 0
    /\ cls = [bp |-> <<>>, k |-> 0, classes |-> {}]
    /\ \E pattern \in [1..MaxPlacings -> Outcomes] :
          ver = [pc |-> "placing", outcomes |-> pattern]

\* the placement the handler waits for ends as the pattern says
PlaceBlock(i) ==
    /\ i \in DOMAIN tasks /\ tasks[i].pc = "place"
    /\ PlaceDone(i, ver.outcomes[tasks[i].i] = "placed", FALSE, FALSE)

NextPlacing ==
    \/ /\ sess[1].phase # "foundation"
       /\ AdvancePhaseCall(FALSE)
    \/ /\ sess[1].phase = "foundation" /\ tasks = <<>>
       /\ sess[1].placedBlocks = 0
       /\ ExecuteCurrentPhaseCall
    \/ \E i \in DOMAIN tasks : ExecPhase(i, FALSE)
    \/ \E i \in DOMAIN tasks : PlaceBlock(i)
    \/ \E i \in DOMAIN tasks : RecoveryDone(i)

SpecPlacing == InitPlacing /\ [][NextPlacing]_vars

----------------------------------------------------------------------------
(* Block classification on its own: every blueprint, block by block *)

\* the phases whose classifier accepts the block
classify(bp, block) ==
    (IF isFoundationLayer(bp, block) THEN {"foundation"} ELSE {})
    \cup (IF isWallBlock(bp, block) THEN {"wall"} ELSE {})
    \cup (IF isRoofBlock(bp, block) THEN {"roof"} ELSE {})
    \cup (IF isDetailBlock(block) THEN {"detail"} ELSE {})

InitClassify ==
    /\ sess = <<>> /\ currentSession = 0 /\ isBuilding = FALSE /\ disk = <<>>
    /\ guard = NewGuardian(0) /\ tasks = <<>> /\ results = <<>> /\ now = 0
    /\ botPos = 0 /\ faults = 0 /\ written = <<>>
    /\ adv = [n |-> 0, obj |-> 0, from |-> "none", ret |-> "none"]
    /\ ncalls = 0
    /\ still = 0
    /\ cls \in {[bp |-> b, k |-> 0, classes |-> {}] : b \in Blueprints}
    /\ ver = NoVerifier

ClassifyNext ==
    /\ cls.k < Len(cls.bp)
    /\ cls' = [cls EXCEPT !.k = @ + 1,
                          !.classes = classify(cls.bp, cls.bp[cls.k + 1])]
    /\ UNCHANGED <<sess, currentSession, isBuilding, disk, guard, tasks, results,
                   now, botPos, faults, written, adv, ncalls, still, ver>>

SpecClassify == InitClassify /\ [][ClassifyNext]_vars

----------------------------------------------------------------------------
(* BuildVerifier.validateStructure and its fix batches, on their own.  The
   world is a map from cells <<x, y, z>> to block names; a cell the map does
   not hold is air, and the name "null" marks a cell of a chunk that is not
   loaded, where bot.blockAt returns null. *)

\* the game's block registry: name -> numeric id
BlockIds == [air |-> 0, stone |-> 1, dirt |-> 3, oak_planks |-> 5, oak_door |-> 7]

getBlockId(name) == BlockIds[name]

Null == [name |-> "null", type |-> -1]

blockAt(w, pos) ==
    IF pos \notin DOMAIN w THEN [name |-> "air", type |-> getBlockId("air")]
    ELSE IF w[pos] = "null" THEN Null
    ELSE [name |-> w[pos], type |-> getBlockId(w[pos])]

\* block && block.name !== 'air'
IsSolid(block) == block # Null /\ block.name # "air"

SetCell(w, pos, name) ==
    [p \in DOMAIN w \cup {pos} |-> IF p = pos THEN name ELSE w[p]]

PosOf(block) == <<block.x, block.y, block.z>>

Plus(p, d) == <<p[1] + d[1], p[2] + d[2], p[3] + d[3]>>

Min(a, b) == IF a <= b THEN a ELSE b

\* the branch of the loop body of validateStructure that entry k takes
ClassOf(bp, w, k) ==
    LET block == bp[k]
        worldBlock == blockAt(w, PosOf(block))
        expectedId == getBlockId(block.type)
    IN IF worldBlock = Null \/ worldBlock.type # expectedId
       THEN IF worldBlock = Null \/ worldBlock.name = "air"
            THEN "missing"
            ELSE "wrong"
       ELSE "correct"

\* the list the loop has pushed the entries of one branch onto, in blueprint
\* order; a list holds the indices of its entries
Pushed(bp, w, class) ==
    LET S == {k \in DOMAIN bp : ClassOf(bp, w, k) = class}
    IN [i \in 1..Cardinality(S) |->
           CHOOSE k \in S : Cardinality({j \in S : j < k}) = i - 1]

Scan(bp, w) ==
    [missingBlocks |-> Pushed(bp, w, "missing"),
     wrongBlocks |-> Pushed(bp, w, "wrong"),
     correctBlocks |-> Pushed(bp, w, "correct")]

\* isComplete with the wrong blocks left out
isCompleteMissingOnly(missingBlocks, wrongBlocks) == Len(missingBlocks) = 0

isComplete(missingBlocks, wrongBlocks) ==
    Len(missingBlocks) = 0 /\ Len(wrongBlocks) = 0

\* the validation record; accuracy = (correct / total) * 100 as a fraction
StructureReport(bp, lists) ==
    [totalBlocks |-> Len(bp),
     correctBlocks |-> Len(lists.correctBlocks),
     missingBlocks |-> lists.missingBlocks,
     wrongBlocks |-> lists.wrongBlocks,
     accuracy |-> [num |-> Len(lists.correctBlocks) * 100, den |-> Len(bp)],
     isComplete |-> isComplete(lists.missingBlocks, lists.wrongBlocks)]

\* a batch that takes the whole list
BatchAll(list) == list

\* list.slice(0, 10)
Batch(list) == SubSeq(list, 1, Min(fixBatch, Len(list)))

NoCell == <<>>

RefDirs == << <<0, -1, 0>>, <<0, 1, 0>>, <<1, 0, 0>>, <<-1, 0, 0>>,
              <<0, 0, 1>>, <<0, 0, -1>> >>

\* findReferenceBlock: the position of the first solid neighbour
findReferenceBlock(w, targetPos) ==
    LET hits == {d \in DOMAIN RefDirs : IsSolid(blockAt(w, Plus(targetPos, RefDirs[d])))}
    IN IF hits = {} THEN NoCell ELSE Plus(targetPos, RefDirs[SetMin(hits)])

\* bot.placeBlock against a face whose outer cell is pos: the world call
\* succeeds or raises, and the game takes the block only into an air cell;
\* places counts the place commands issued
Placed(v, type, pos, ok) ==
    IF ok /\ blockAt(v.world, pos).name = "air"
    THEN [v EXCEPT !.world = SetCell(v.world, pos, type),
                   !.inventory[type] = @ - 1,
                   !.places = @ + 1]
    ELSE [v EXCEPT !.places = @ + 1]

\* one iteration of fixMissingBlocks
fixMissingBlock(v, block, ok) ==
    LET pos == PosOf(block)
    IN IF v.inventory[block.type] > 0 /\ findReferenceBlock(v.world, pos) # NoCell
       THEN Placed(v, block.type, pos, ok)
       ELSE v

\* correctBlockPlacement: dig what is there, then place against the block
\* below; digs counts the dig commands issued
correctBlockPlacement(v, correctBlockType, pos, okDig, okPlace) ==
    LET dig == IsSolid(blockAt(v.world, pos))
        v1 == IF dig /\ okDig
              THEN [v EXCEPT !.world = SetCell(v.world, pos, "air"), !.digs = @ + 1]
              ELSE v
    IN IF dig /\ ~okDig THEN [v EXCEPT !.digs = @ + 1]
       ELSE IF /\ v1.inventory[correctBlockType] > 0
               /\ IsSolid(blockAt(v1.world, Plus(pos, <<0, -1, 0>>)))
       THEN Placed(v1, correctBlockType, pos, okPlace)
       ELSE v1

\* Inputs: blueprints of up to MaxDup entries over two stacked cells, which
\* may name a cell twice, and rows of blocks on the ground of which the first
\* are in place, the next are missing and the rest are of another type
VerTypes == {"stone", "oak_planks"}

Spec3(type, pos) == [type |-> type, x |-> pos[1], y |-> pos[2], z |-> pos[3]]

StackCells == {<<0, 0, 0>>, <<0, 1, 0>>}

StackBlueprints ==
    UNION {[1..n -> {Spec3(t, p) : t \in VerTypes, p \in StackCells}] : n \in 1..MaxDup}

StackWorlds ==
    {[p \in StackCells \cup {<<0, -1, 0>>} |->
         IF p = <<0, -1, 0>> THEN "dirt" ELSE f[p]] :
       f \in [StackCells -> {"null", "air", "stone", "oak_planks"}]}

\* <<blocks, correct, missing>>: the scenario of 100 blocks with 90 in place
\* and 5 missing, and a row with more than ten missing and ten wrong blocks
Scenario == <<100, 90, 5>>
Overfull == <<22, 0, 11>>

Rows ==
    {Scenario, Overfull}
        \cup {<<n, c, m>> : n \in 1..MaxRow, c \in 0..MaxRow, m \in 0..MaxRow}

RowBlueprint(n) == [k \in 1..n |-> Spec3("stone", <<k, 0, 0>>)]

RowWorld(n, c, m) ==
    [p \in {<<k, y, 0>> : k \in 1..n, y \in {-1, 0}} |->
        IF p[2] = -1 THEN "dirt"
        ELSE IF p[1] <= c THEN "stone"
        ELSE IF p[1] <= c + m THEN "air" ELSE "oak_planks"]

Verifier(bp, w, inv) ==
    [pc |-> "scan", blueprint |-> bp, world |-> w, inventory |-> inv,
     before |-> w, lists |-> Scan(<<>>, w), validation |-> StructureReport(<<>>, Scan(<<>>, w)),
     k |-> 0, missingFixes |-> 0, wrongFixes |-> 0, digs |-> 0, places |-> 0]

InitValidate ==
    /\ sess = <<>> /\ currentSession = 0 /\ isBuilding = FALSE /\ disk = <<>>
    /\ guard = NewGuardian(0) /\ tasks = <<>> /\ results = <<>> /\ now = 0
    /\ botPos = 0 /\ faults = 0 /\ written = <<>>
    /\ adv = [n |-> 0, obj |-> 0, from |-> "none", ret |-> "none"]
    /\ ncalls = 0
    /\ still = 0
    /\ cls = [bp |-> <<>>, k |-> 0, classes |-> {}]
    /\ \/ \E bp \in StackBlueprints, w \in StackWorlds, inv \in [VerTypes -> 0..1] :
             ver = Verifier(bp, w, inv)
       \/ \E r \in Rows, stock \in {0, fixBatch} :
             /\ r[2] + r[3] <= r[1]
             /\ ver = Verifier(RowBlueprint(r[1]), RowWorld(r[1], r[2], r[3]),
                               [t \in VerTypes |-> IF t = "stone" THEN stock ELSE 0])

\* world calls may raise on the stacks; on the rows they succeed
WorldCallOutcomes == IF Len(ver.blueprint) <= MaxDup THEN BOOLEAN ELSE {TRUE}

AfterMissing(v) ==
    IF Len(v.validation.wrongBlocks) > 0 THEN [v EXCEPT !.pc = "fixWrong", !.k = 1]
    ELSE [v EXCEPT !.pc = "done"]

\* validateStructure up to its first fix
ValidateStructure ==
    /\ ver.pc = "scan"
    /\ LET lists == Scan(ver.blueprint, ver.world)
           v == [ver EXCEPT !.lists = lists,
                            !.validation = StructureReport(ver.blueprint, lists),
                            !.before = ver.world]
       IN ver' = IF Len(lists.missingBlocks) > 0
                 THEN [v EXCEPT !.pc = "fixMissing", !.k = 1]
                 ELSE AfterMissing(v)
    /\ UNCHANGED <<sess, currentSession, isBuilding, disk, guard, tasks, results,
                   now, botPos, faults, written, adv, ncalls, still, cls>>

\* one iteration of the loop of fixMissingBlocks
FixMissing(ok) ==
    /\ ver.pc = "fixMissing"
    /\ LET batch == Batch(ver.validation.missingBlocks)
           v == [fixMissingBlock(ver, ver.blueprint[batch[ver.k]], ok)
                    EXCEPT !.missingFixes = @ + 1, !.k = @ + 1]
       IN ver' = IF ver.k = Len(batch) THEN AfterMissing(v) ELSE v
    /\ UNCHANGED <<sess, currentSession, isBuilding, disk, guard, tasks, results,
                   now, botPos, faults, written, adv, ncalls, still, cls>>

\* one iteration of the loop of fixWrongBlocks
FixWrong(okDig, okPlace) ==
    /\ ver.pc = "fixWrong"
    /\ LET batch == Batch(ver.validation.wrongBlocks)
           block == ver.blueprint[batch[ver.k]]
           v == [correctBlockPlacement(ver, block.type, PosOf(block), okDig, okPlace)
                    EXCEPT !.wrongFixes = @ + 1, !.k = @ + 1]
       IN ver' = IF ver.k = Len(batch) THEN [v EXCEPT !.pc = "done"] ELSE v
    /\ UNCHANGED <<sess, currentSession, isBuilding, disk, guard, tasks, results,
                   now, botPos, faults, written, adv, ncalls, still, cls>>

NextValidate ==
    \/ ValidateStructure
    \/ \E ok \in WorldCallOutcomes : FixMissing(ok)
    \/ \E okDig \in WorldCallOutcomes, okPlace \in WorldCallOutcomes :
          FixWrong(okDig, okPlace)

SpecValidate == InitValidate /\ [][NextValidate]_vars

----------------------------------------------------------------------------
(* BuildVerifier.verifyBlockPlacement on its own: one cell with the cells
   below and above it, every content of the three and every inventory. *)

\* verifyBlockPlacement after its pause: the verification record, and the
\* correction when the cell holds another block
verifyBlockPlacement(v, blockType, pos, okDig, okPlace) ==
    LET placedBlock == blockAt(v.world, pos)
        expectedId == getBlockId(blockType)
        failed == placedBlock = Null \/ placedBlock.type # expectedId
        v1 == IF /\ failed
                 /\ placedBlock # Null
                 /\ placedBlock.name # "air" /\ placedBlock.name # blockType
              THEN correctBlockPlacement(v, blockType, pos, okDig, okPlace)
              ELSE v
    IN [v1 EXCEPT !.verification =
           [success |-> ~failed,
            actualName |-> IF placedBlock = Null THEN "air" ELSE placedBlock.name]]

Target == <<0, 0, 0>>

PlacementWorlds ==
    {(Target :> t) @@ (<<0, -1, 0>> :> b) @@ (<<0, 1, 0>> :> a) :
        t \in {"null", "air", "stone", "oak_planks"},
        b \in {"air", "dirt"}, a \in {"air", "dirt"}}

InitPlacement ==
    /\ sess = <<>> /\ currentSession = 0 /\ isBuilding = FALSE /\ disk = <<>>
    /\ guard = NewGuardian(0) /\ tasks = <<>> /\ results = <<>> /\ now = 0
    /\ botPos = 0 /\ faults = 0 /\ written = <<>>
    /\ adv = [n |-> 0, obj |-> 0, from |-> "none", ret |-> "none"]
    /\ ncalls = 0
    /\ still = 0
    /\ cls = [bp |-> <<>>, k |-> 0, classes |-> {}]
    /\ \E w \in PlacementWorlds, inv \in [VerTypes -> 0..1], t \in VerTypes :
          ver = [pc |-> "verify", world |-> w, before |-> w, inventory |-> inv,
                 had |-> inv,
                 blockType |-> t, digs |-> 0, places |-> 0,
                 calls |-> [dig |-> TRUE, place |-> TRUE],
                 verification |-> [success |-> FALSE, actualName |-> "none"]]

VerifyBlockPlacement(okDig, okPlace) ==
    /\ ver.pc = "verify"
    /\ ver' = [verifyBlockPlacement(ver, ver.blockType, Target, okDig, okPlace)
                  EXCEPT !.pc = "verified",
                         !.calls = [dig |-> okDig, place |-> okPlace]]
    /\ UNCHANGED <<sess, currentSession, isBuilding, disk, guard, tasks, results,
                   now, botPos, faults, written, adv, ncalls, still, cls>>

NextPlacement == \E okDig \in BOOLEAN, okPlace \in BOOLEAN : VerifyBlockPlacement(okDig, okPlace)

SpecPlacement == InitPlacement /\ [][NextPlacement]_vars

----------------------------------------------------------------------------
(* The enclosure, roof and interior checks of BuildVerifier, on their own.
   The bot stands at the origin; the world holds at most MaxSolid cells that
   are not air. *)

Abs(n) == IF n >= 0 THEN n ELSE -n

Box(radius, ys) == {<<x, y, z>> : x \in -radius..radius, y \in ys, z \in -radius..radius}

\* the cells checkEnclosure treats as wall positions
EnclosurePerimeter ==
    {c \in Box(enclosureRadius, 0..4) :
        Abs(c[1]) = enclosureRadius \/ Abs(c[3]) = enclosureRadius}

\* checkEnclosure decided by the gap count alone
checkEnclosureByGaps(w, at) ==
    LET walls == {c \in EnclosurePerimeter : IsSolid(blockAt(w, Plus(at, c)))}
        gaps == {c \in EnclosurePerimeter : c \notin walls /\ c[2] <= 2}
    IN [test |-> "enclosure_check", passed |-> Cardinality(gaps) <= maxGaps,
        count |-> Cardinality(gaps)]

\* checkEnclosure; count is the number of gaps the scan has collected
checkEnclosure(w, at) ==
    LET walls == {c \in EnclosurePerimeter : IsSolid(blockAt(w, Plus(at, c)))}
        gaps == {c \in EnclosurePerimeter : c \notin walls /\ c[2] <= 2}
        foundWalls == walls # {}
    IN [test |-> "enclosure_check",
        passed |-> IF ~foundWalls THEN TRUE ELSE Cardinality(gaps) <= maxGaps,
        count |-> Cardinality(gaps)]

\* checkRoofCoverage; count is the number of floor cells without a roof
checkRoofCoverage(w, at) ==
    LET floor == {c \in Box(roofRadius, {-1}) : IsSolid(blockAt(w, Plus(at, c)))}
        covered == {c \in floor : \E y \in 3..5 :
                       IsSolid(blockAt(w, Plus(at, <<c[1], y, c[3]>>)))}
        coveredSpots == Cardinality(covered)
        uncoveredSpots == Cardinality(floor \ covered)
        foundFloor == floor # {}
    IN [test |-> "roof_coverage",
        passed |-> IF ~foundFloor THEN TRUE
                   ELSE ~(coveredSpots * 100 < minCoverage * (coveredSpots + uncoveredSpots)),
        count |-> uncoveredSpots]

allowedBlocks == {"oak_door", "torch", "chest", "crafting_table", "furnace"}

\* checkInteriorClearing; count is the number of obstructions collected
checkInteriorClearing(w, at) ==
    LET floor == {c \in Box(interiorRadius, {0}) :
                     /\ ~(Abs(c[1]) <= 1 \/ Abs(c[3]) <= 1)
                     /\ IsSolid(blockAt(w, Plus(at, c)))}
        obstructions == {<<c[1], y, c[3]>> : c \in floor, y \in 1..3}
        unwanted == {c \in obstructions :
                        /\ IsSolid(blockAt(w, Plus(at, c)))
                        /\ blockAt(w, Plus(at, c)).name \notin allowedBlocks}
        foundFloor == floor # {}
    IN [test |-> "interior_clearing",
        passed |-> IF ~foundFloor THEN TRUE ELSE Cardinality(unwanted) <= maxObstructions,
        count |-> Cardinality(unwanted)]

\* cells that matter to one check or another: a wall position, a floor cell
\* under the bot with the cell three above it, an interior floor cell with the
\* cell above it, and a cell no check reads
ProbeCells ==
    {<<enclosureRadius, 0, 0>>, <<0, -1, 0>>, <<0, 3, 0>>, <<2, 0, 2>>, <<2, 1, 2>>,
     <<0, -2, 0>>}

ProbeWorlds ==
    UNION {[S -> {"stone", "oak_door", "null"}] :
              S \in {T \in SUBSET ProbeCells : Cardinality(T) <= MaxSolid}}

CheckNames == {"enclosure_check", "roof_coverage", "interior_clearing"}

NotRun == [test |-> "none", passed |-> FALSE, count |-> 0]

InitChecks ==
    /\ sess = <<>> /\ currentSession = 0 /\ isBuilding = FALSE /\ disk = <<>>
    /\ guard = NewGuardian(0) /\ tasks = <<>> /\ results = <<>> /\ now = 0
    /\ botPos = 0 /\ faults = 0 /\ written = <<>>
    /\ adv = [n |-> 0, obj |-> 0, from |-> "none", ret |-> "none"]
    /\ ncalls = 0
    /\ still = 0
    /\ cls = [bp |-> <<>>, k |-> 0, classes |-> {}]
    /\ \E w \in ProbeWorlds :
          ver = [pc |-> "checks", world |-> w, at |-> <<0, 0, 0>>,
                 tests |-> [n \in CheckNames |-> NotRun]]

RunCheck(result) ==
    /\ ver.pc = "checks"
    /\ ver.tests[result.test] = NotRun
    /\ ver' = [ver EXCEPT !.tests[result.test] = result]
    /\ UNCHANGED <<sess, currentSession, isBuilding, disk, guard, tasks, results,
                   now, botPos, faults, written, adv, ncalls, still, cls>>

CheckEnclosure == RunCheck(checkEnclosure(ver.world, ver.at))

CheckRoofCoverage == RunCheck(checkRoofCoverage(ver.world, ver.at))

CheckInteriorClearing == RunCheck(checkInteriorClearing(ver.world, ver.at))

NextChecks ==
    \/ CheckEnclosure
    \/ CheckRoofCoverage
    \/ CheckInteriorClearing

SpecChecks == InitChecks /\ [][NextChecks]_vars

----------------------------------------------------------------------------
(* checkInteriorClearing on its own: a row of floor cells with a block above
   each, laid next to the centre of the scan square, inside it, or on its
   outer edge *)

MaxObstructed == 6

\* the x offsets of the rows: next to the centre, inside, on the outer edge
RowOffsets == {1, 4, interiorRadius}

\* z offsets clear of the centre rows and of the outer edge
RowZs == <<2, 3, 4, 5, 6, -2, -3, -4>>

\* n columns at x: a floor cell and a block of the given name at height y
\* above it
InteriorWorld(x, n, y, name) ==
    [c \in {<<x, 0, RowZs[k]>> : k \in 1..n} \cup {<<x, y, RowZs[k]>> : k \in 1..n}
        |-> IF c[2] = 0 THEN "stone" ELSE name]

InitInterior ==
    /\ sess = <<>> /\ currentSession = 0 /\ isBuilding = FALSE /\ disk = <<>>
    /\ guard = NewGuardian(0) /\ tasks = <<>> /\ results = <<>> /\ now = 0
    /\ botPos = 0 /\ faults = 0 /\ written = <<>>
    /\ adv = [n |-> 0, obj |-> 0, from |-> "none", ret |-> "none"]
    /\ ncalls = 0
    /\ still = 0
    /\ cls = [bp |-> <<>>, k |-> 0, classes |-> {}]
    /\ \E x \in RowOffsets, n \in 0..MaxObstructed, y \in 1..3,
          name \in {"stone", "oak_door"} :
          ver = [pc |-> "checks", world |-> InteriorWorld(x, n, y, name),
                 at |-> <<0, 0, 0>>, tests |-> [k \in CheckNames |-> NotRun]]

SpecInterior == InitInterior /\ [][CheckInteriorClearing]_vars

----------------------------------------------------------------------------
(* attemptStructuralFixes on the tests of the house battery, each failed test
   carrying up to MaxItems items, every item of a fix loop meeting a world that
   needs no command, takes the command, or raises on it *)

MaxItems == 6

fixLimit == 5

\* the tests of validateHouseFunctionality, in the order it pushes them
HouseTests == <<"doors_present", "enclosure_check", "roof_coverage",
                "interior_clearing", "structural_integrity">>

\* the tests attemptStructuralFixes has a fix loop for
FixLoops == {"interior_clearing", "structural_integrity", "enclosure_check"}

\* a fix loop that walks the whole list
fixItemsAll(n) == n

\* items.slice(0, 5): the number of items a fix loop walks
fixItems(n) == Min(n, fixLimit)

InitFixes ==
    /\ sess = <<>> /\ currentSession = 0 /\ isBuilding = FALSE /\ disk = <<>>
    /\ guard = NewGuardian(0) /\ tasks = <<>> /\ results = <<>> /\ now = 0
    /\ botPos = 0 /\ faults = 0 /\ written = <<>>
    /\ adv = [n |-> 0, obj |-> 0, from |-> "none", ret |-> "none"]
    /\ ncalls = 0
    /\ still = 0
    /\ cls = [bp |-> <<>>, k |-> 0, classes |-> {}]
    /\ \E passed \in [DOMAIN HouseTests -> BOOLEAN],
          items \in [DOMAIN HouseTests -> {0, MaxItems}] :
          ver = [pc |-> "fixes",
                 failedTests |-> [j \in DOMAIN HouseTests |->
                                     [test |-> HouseTests[j], passed |-> passed[j],
                                      items |-> IF HouseTests[j] \in FixLoops
                                                THEN items[j] ELSE 0]],
                 t |-> 1, k |-> 0,
                 commands |-> [n \in FixLoops \cup {"roof_coverage"} |-> 0],
                 tried |-> [n \in FixLoops |-> 0],
                 raised |-> FALSE]

\* the test attemptStructuralFixes is at has a fix loop with items left
InFixLoop ==
    /\ ver.pc = "fixes"
    /\ ~ver.failedTests[ver.t].passed
    /\ ver.failedTests[ver.t].test \in FixLoops
    /\ ver.k < fixItems(ver.failedTests[ver.t].items)

\* one iteration of fixInteriorObstructions, fixFloatingBlocks or fixWallGaps:
\* the item needs no command ("none"), or its dig or placeBlock is issued and
\* returns ("done") or raises into the catch of the iteration ("raised")
FixItem(outcome) ==
    /\ InFixLoop
    /\ LET name == ver.failedTests[ver.t].test
       IN ver' = [ver EXCEPT !.k = @ + 1,
                             !.tried[name] = @ + 1,
                             !.commands[name] = @ + (IF outcome = "none" THEN 0 ELSE 1),
                             !.raised = @ \/ outcome = "raised"]
    /\ UNCHANGED <<sess, currentSession, isBuilding, disk, guard, tasks, results,
                   now, botPos, faults, written, adv, ncalls, still, cls>>

\* the loop of attemptStructuralFixes goes to the next test: the test passed,
\* has no case, is roof_coverage (addRoofCoverage only logs), or its fix loop
\* has ended
NextTest ==
    /\ ver.pc = "fixes" /\ ~InFixLoop
    /\ ver' = IF ver.t = Len(ver.failedTests) THEN [ver EXCEPT !.pc = "fixed"]
              ELSE [ver EXCEPT !.t = @ + 1, !.k = 0]
    /\ UNCHANGED <<sess, currentSession, isBuilding, disk, guard, tasks, results,
                   now, botPos, faults, written, adv, ncalls, still, cls>>

NextFixes ==
    \/ \E outcome \in {"none", "done", "raised"} : FixItem(outcome)
    \/ NextTest

SpecFixes == InitFixes /\ [][NextFixes]_vars

----------------------------------------------------------------------------
(* The wall battery and the generic battery of validateFunctionality, and the
   structural-integrity check of the house battery, over walls of up to
   WallLen columns and WallTop + 1 cells of height next to the bot. *)

checkWallContinuity(w, at) == [test |-> "wall_continuity", passed |-> TRUE, count |-> 0]

checkWallHeight(w, at) == [test |-> "wall_height", passed |-> TRUE, count |-> 0]

checkFloatingBlocks(w, at) == [test |-> "floating_blocks", passed |-> TRUE, count |-> 0]

checkStructuralStability(w, at) ==
    [test |-> "structural_stability", passed |-> TRUE, count |-> 0]

\* allPassed after the tests of a battery
Functional(tests) == \A k \in DOMAIN tests : tests[k].passed

validateWallFunctionality(w, at) ==
    LET tests == <<checkWallContinuity(w, at), checkWallHeight(w, at)>>
    IN [functional |-> Functional(tests), tests |-> tests]

validateGenericStructure(w, at) ==
    LET tests == <<checkFloatingBlocks(w, at), checkStructuralStability(w, at)>>
    IN [functional |-> Functional(tests), tests |-> tests]

SideDirs == {<<1, 0, 0>>, <<-1, 0, 0>>, <<0, 0, 1>>, <<0, 0, -1>>}

\* checkStructuralIntegrity; count is the number of floating blocks
checkStructuralIntegrity(w, at) ==
    LET hanging == {c \in Box(integrityRadius, 1..6) :
                       /\ IsSolid(blockAt(w, Plus(at, c)))
                       /\ ~IsSolid(blockAt(w, Plus(at, Plus(c, <<0, -1, 0>>))))}
        hasSupport(c) == \E d \in SideDirs : IsSolid(blockAt(w, Plus(at, Plus(c, d))))
        floatingBlocks == {c \in hanging : ~hasSupport(c)}
        unsupportedBlocks == {c \in hanging : hasSupport(c)}
    IN [test |-> "structural_integrity",
        passed |-> IF floatingBlocks # {} THEN FALSE
                   ELSE Cardinality(unsupportedBlocks) <= maxUnsupported,
        count |-> Cardinality(floatingBlocks)]

\* the switch of validateFunctionality, for 'wall' and for the types that
\* fall to its default branch
validateFunctionality(buildingType, w, at) ==
    IF buildingType = "wall" THEN validateWallFunctionality(w, at)
    ELSE validateGenericStructure(w, at)

WallCells == {<<x, y, 0>> : x \in 1..WallLen, y \in 0..WallTop}

WallWorlds ==
    UNION {[S -> {"stone"}] : S \in SUBSET WallCells}

BatteryTypes == {"wall", "tower"}

NoReport == [functional |-> FALSE, tests |-> <<>>]

InitBatteries ==
    /\ sess = <<>> /\ currentSession = 0 /\ isBuilding = FALSE /\ disk = <<>>
    /\ guard = NewGuardian(0) /\ tasks = <<>> /\ results = <<>> /\ now = 0
    /\ botPos = 0 /\ faults = 0 /\ written = <<>>
    /\ adv = [n |-> 0, obj |-> 0, from |-> "none", ret |-> "none"]
    /\ ncalls = 0
    /\ still = 0
    /\ cls = [bp |-> <<>>, k |-> 0, classes |-> {}]
    /\ \E w \in WallWorlds :
          ver = [pc |-> "batteries", world |-> w, at |-> <<0, 0, 0>>,
                 reports |-> [t \in BatteryTypes |-> NoReport], integrity |-> NotRun]

ValidateFunctionality(buildingType) ==
    /\ ver.pc = "batteries"
    /\ ver.reports[buildingType] = NoReport
    /\ ver' = [ver EXCEPT !.reports[buildingType] =
                  validateFunctionality(buildingType, ver.world, ver.at)]
    /\ UNCHANGED <<sess, currentSession, isBuilding, disk, guard, tasks, results,
                   now, botPos, faults, written, adv, ncalls, still, cls>>

\* the house battery's structural-integrity test, called on the same world
CheckStructuralIntegrity ==
    /\ ver.pc = "batteries"
    /\ ver.integrity = NotRun
    /\ ver' = [ver EXCEPT !.integrity = checkStructuralIntegrity(ver.world, ver.at)]
    /\ UNCHANGED <<sess, currentSession, isBuilding, disk, guard, tasks, results,
                   now, botPos, faults, written, adv, ncalls, still, cls>>

NextBatteries ==
    \/ \E t \in BatteryTypes : ValidateFunctionality(t)
    \/ CheckStructuralIntegrity

SpecBatteries == InitBatteries /\ [][NextBatteries]_vars

----------------------------------------------------------------------------
(* Properties *)

FixedOrder == phases \o <<"complete">>

\* C1: a build() or resumeBuild() call whose phase handlers all returned
\* success, from the session's starting phase through verification, returns a
\* final report with success = true and the post-build verification results.
C1_SuccessfulBuildReports ==
    \A i \in DOMAIN tasks :
        ( /\ IsLoop(tasks[i]) /\ tasks[i].pc = "finally"
          /\ guard.failurePatterns = 0
          /\ adv.n > 0 /\ adv.obj = currentSession
          /\ adv.from = "verification" /\ adv.ret = "complete" )
        => tasks[i].res.success /\ tasks[i].res.verified

\* C2: advancePhase called at verification returns 'complete' and leaves the
\* session's phase equal to 'complete'.
C2_VerificationAdvancesToComplete ==
    (adv.n > 0 /\ adv.from = "verification" /\ adv.ret = "complete")
        => sess[adv.obj].phase = "complete"

\* C3: the phase of every session is always one of the fixed order, and every
\* change of it, whoever makes it, goes from a phase to its immediate
\* successor in that order.
C3_PhaseOrder ==
    [][ /\ \A o \in DOMAIN sess' :
              \E k \in 1..Len(FixedOrder) : FixedOrder[k] = sess'[o].phase
        /\ \A o \in DOMAIN sess :
              sess'[o].phase # sess[o].phase
                  => \E k \in 1..(Len(FixedOrder) - 1) :
                        /\ FixedOrder[k] = sess[o].phase
                        /\ FixedOrder[k + 1] = sess'[o].phase ]_vars

\* the monitored build went through a stagnation recovery and reached the
\* last phase of the list
C3_Witness ==
    \E o \in DOMAIN sess :
        /\ sess[o].phase = "verification"
        /\ Len(sess[o].completedPhases) = Len(phases) - 1
        /\ guard.warnings # <<>>

\* C4: once advancePhase has returned 'complete', the next advancePhase call
\* on the session returns 'complete' too and leaves phase, completedPhases and
\* the checkpoint list as they were.
C4_TerminalIdempotent ==
    [][ ( /\ adv'.n = adv.n + 1 /\ adv.n > 0
          /\ adv'.obj = adv.obj /\ adv.ret = "complete" )
        => /\ adv'.ret = "complete"
           /\ sess'[adv.obj].phase = sess[adv.obj].phase
           /\ sess'[adv.obj].completedPhases = sess[adv.obj].completedPhases
           /\ sess'[adv.obj].checkpoints = sess[adv.obj].checkpoints ]_vars

\* two calls in a row have returned 'complete'
C4_Witness ==
    /\ adv.n >= Len(phases) + 1
    /\ adv.ret = "complete"
    /\ Len(sess[adv.obj].completedPhases) = Len(phases) - 1

\* C5: the session loadSession returns has the phase, progress and blueprint
\* of the checkpoint written last for that session id.
C5_RoundTrip ==
    \A i \in DOMAIN tasks :
        (tasks[i].kind = "resume" /\ tasks[i].pc = "start" /\ currentSession # 0)
        => LET o == sess[currentSession]
               last == written[o.sessionId].ck
           IN /\ o.phase = last.phase
              /\ CheckpointOf(o).progress = last.progress
              /\ o.blueprint = last.blueprint

\* C6: checkpoint files are append-only: no step changes a file written
\* before, and the number of the file written last for a session only grows.
C6_AppendOnly ==
    [][ /\ \A k \in DOMAIN disk : k \in DOMAIN disk' /\ disk'[k] = disk[k]
        /\ \A id \in DOMAIN written :
              written'[id] # written[id] => written'[id].n > written[id].n ]_vars

\* C7: every block of a blueprint is accepted by exactly one of the four
\* phase classifiers.
C7_Partition ==
    cls.k > 0 => Cardinality(cls.classes) = 1

\* C8: a recordFailure call escalates (a repeated_failure entry and the
\* recovery, which puts the kind's counter back to 0) exactly when it is the
\* 5th of its kind since the last escalation; otherwise it adds one to that
\* kind's counter and nothing else; no other step touches counters or entries.
C8_EscalationOnFifth ==
    [][ IF guard'.failurePatterns = guard.failurePatterns + 1
        THEN \E k \in PhaseNames :
                /\ \A j \in PhaseNames \ {k} :
                      guard'.repeatedFailures[j] = guard.repeatedFailures[j]
                /\ IF guard.repeatedFailures[k] = maxRepeatedFailures - 1
                   THEN /\ guard'.failures = Append(guard.failures, k)
                        /\ guard'.repeatedFailures[k] = 0
                   ELSE /\ guard'.failures = guard.failures
                        /\ guard'.repeatedFailures[k] = guard.repeatedFailures[k] + 1
                        /\ guard'.repeatedFailures[k] < maxRepeatedFailures
        ELSE /\ guard'.failures = guard.failures
             /\ guard'.repeatedFailures = guard.repeatedFailures ]_vars

\* one kind has escalated twice, on its 5th and on its 10th failure
C8_Witness ==
    /\ Len(guard.failures) = 2
    /\ guard.failures[1] = guard.failures[2]
    /\ guard.failurePatterns = 2 * maxRepeatedFailures
    /\ guard.repeatedFailures[guard.failures[1]] = 0

\* C9: when the monitor has been on for 35 s with no updateProgress and the
\* bot in place, the tick records exactly one warning, starts exactly one
\* recovery and leaves lastProgressTime later than it was.
C9_OneStagnationWarning ==
    [][ ( /\ now' = now + progressPeriod
          /\ guard.monitoringActive
          /\ now' - guard.lastProgressTime >= maxStagnantTime + progressPeriod
          /\ now' - still >= maxStagnantTime + progressPeriod )
        => /\ Len(guard'.warnings) = Len(guard.warnings) + 1
           /\ Len(tasks') = Len(tasks) + 1
           /\ guard'.lastProgressTime > guard.lastProgressTime ]_vars

\* C10: at most one phase handler of a session is in flight (waiting for a
\* placement or for the verifier) at any moment.
C10_Serialized ==
    \A o \in DOMAIN sess :
        Cardinality({i \in DOMAIN tasks :
                        tasks[i].obj = o /\ tasks[i].pc \in {"place", "verify"}}) <= 1

\* C11: the build loop performs at most one iteration per phase that remained
\* when the call started, whatever the handlers return or raise.
C11_OneIterationPerPhase ==
    \A i \in DOMAIN tasks :
        (IsLoop(tasks[i]) /\ tasks[i].first > 0)
            => tasks[i].n <= Len(phases) - tasks[i].first + 1

\* C12: when a handler has failed, the build loop records one failure pattern
\* and writes the emergency checkpoint, and after the backoff it advances the
\* session to the successor of the failed phase, which it therefore does not
\* execute again.
C12_FailureAdvances ==
    [][ \A i \in DOMAIN tasks :
          (IsLoop(tasks[i]) /\ i \in DOMAIN tasks' /\ currentSession # 0)
          => LET o == sess[currentSession]
                 o2 == sess'[currentSession]
             IN /\ (tasks[i].pc = "catch" /\ tasks'[i].pc = "backoff")
                     => /\ guard'.failurePatterns = guard.failurePatterns + 1
                        /\ Len(o2.checkpoints) = Len(o.checkpoints) + 1
                        /\ o2.phase = o.phase
                /\ (tasks[i].pc = "backoff" /\ tasks'[i].pc = "loop")
                     => \E k \in 1..(Len(FixedOrder) - 1) :
                           /\ FixedOrder[k] = o.phase
                           /\ FixedOrder[k + 1] = o2.phase ]_vars

\* C13: once stopBuild has lowered isBuilding while a handler of the build
\* loop waits for a placement and has more blocks to place, that placement is
\* the last one: the handler starts no further placement and the phase stays.
C13_StopBetweenBlocks ==
    [][ \A i \in DOMAIN tasks :
          ( /\ IsLoop(tasks[i]) /\ i \in DOMAIN tasks'
            /\ ~isBuilding
            /\ tasks[i].pc = "place" /\ tasks[i].i < Len(tasks[i].todo) )
          => /\ ~(tasks'[i].pc = "place" /\ tasks'[i].i > tasks[i].i)
             /\ sess'[tasks[i].obj].phase = sess[tasks[i].obj].phase ]_vars

\* C14: resumeBuild(id) with no checkpoint file for id on disk returns the
\* failure 'Session not found'; monitoring is not started, no build loop is
\* begun and no checkpoint is written.
C14_SessionNotFound ==
    [][ \A id \in 1..MaxCalls :
          ((~\E key \in DOMAIN disk : key[1] = id) /\ Resume(id))
          => /\ results' = Append(results,
                    Result("resume", FALSE, "Session not found", FALSE))
             /\ ~guard'.monitoringActive
             /\ guard'.buildSession = guard.buildSession
             /\ tasks' = tasks
             /\ disk' = disk
             /\ sess' = sess
             /\ written' = written ]_vars

\* a resume of an unknown id has failed after an earlier build had run
C14_Witness ==
    /\ Len(results) = 2
    /\ results[1].call = "build"
    /\ guard.buildSession = 1
    /\ results[2].reason = "Session not found"

\* C15: a resumeBuild that fails with 'Session not found' while a build is in
\* progress leaves the manager's currentSession and isBuilding and the
\* guardian untouched.
C15_FailedResumeIsLocal ==
    [][ ( /\ \E i \in DOMAIN tasks : IsLoop(tasks[i])
          /\ Len(results') = Len(results) + 1
          /\ results'[Len(results')].reason = "Session not found" )
        => /\ currentSession' = currentSession
           /\ isBuilding' = isBuilding
           /\ guard' = guard ]_vars

\* C16: no call of build() or resumeBuild() ends by raising to its caller;
\* every call ends with a result object.
C16_NeverRaises ==
    \A k \in DOMAIN results : results[k].reason # "raised"

\* C17: validateStructure puts every entry of a non-empty blueprint on exactly
\* one of its three lists: correct when the world block has the expected id,
\* missing when the cell is empty, wrong when it holds another block; the
\* three counts add up to totalBlocks, accuracy is correctBlocks * 100 /
\* totalBlocks, and isComplete holds exactly when nothing is missing or wrong.
C17_StructureReport ==
    (ver.pc \in {"fixMissing", "fixWrong", "done"} /\ Len(ver.blueprint) > 0)
    => LET v == ver.validation
           Has(list, k) == Cardinality({i \in DOMAIN list : list[i] = k})
           cell(k) == IF PosOf(ver.blueprint[k]) \in DOMAIN ver.before
                      THEN ver.before[PosOf(ver.blueprint[k])] ELSE "air"
       IN /\ \A k \in DOMAIN ver.blueprint :
                /\ Has(ver.lists.correctBlocks, k) + Has(v.missingBlocks, k)
                       + Has(v.wrongBlocks, k) = 1
                /\ Has(ver.lists.correctBlocks, k) = 1 <=> cell(k) = ver.blueprint[k].type
                /\ Has(v.missingBlocks, k) = 1 <=> cell(k) \in {"air", "null"}
          /\ v.correctBlocks = Len(ver.lists.correctBlocks)
          /\ v.correctBlocks + Len(v.missingBlocks) + Len(v.wrongBlocks) = v.totalBlocks
          /\ v.totalBlocks = Len(ver.blueprint)
          /\ v.accuracy.num * v.totalBlocks = v.correctBlocks * 100 * v.accuracy.den
          /\ v.accuracy.den > 0
          /\ v.isComplete <=> (Len(v.missingBlocks) = 0 /\ Len(v.wrongBlocks) = 0)

\* the scenario of 100 blocks: 90 correct, 5 missing, 5 wrong, accuracy 90
C17_Witness ==
    /\ ver.pc = "done"
    /\ ver.validation.totalBlocks = 100
    /\ ver.validation.correctBlocks = 90
    /\ Len(ver.validation.missingBlocks) = 5
    /\ Len(ver.validation.wrongBlocks) = 5
    /\ ver.validation.accuracy.num = 90 * ver.validation.accuracy.den
    /\ ~ver.validation.isComplete

\* C18: one validateStructure call makes at most 10 attempts to fix missing
\* blocks and at most 10 to correct wrong blocks, and none when the structure
\* is complete.
C18_BoundedBatches ==
    (ver.pc \in {"fixMissing", "fixWrong", "done"})
    => /\ ver.missingFixes <= 10
       /\ ver.wrongFixes <= 10
       /\ ver.validation.isComplete => (ver.missingFixes = 0 /\ ver.wrongFixes = 0)

\* a call that found more than ten missing and more than ten wrong blocks
C18_Witness ==
    /\ ver.pc = "done"
    /\ Len(ver.validation.missingBlocks) > 10
    /\ Len(ver.validation.wrongBlocks) > 10
    /\ ver.missingFixes = 10
    /\ ver.wrongFixes = 10

\* C19: when the fix batches of validateStructure are over, every blueprint
\* entry that was correct at the scan is still correct, and the number of
\* correct entries is not lower than at the scan.
C19_FixesKeepCorrect ==
    ver.pc = "done"
    => /\ \A k \in DOMAIN ver.blueprint :
             ClassOf(ver.blueprint, ver.before, k) = "correct"
                => ClassOf(ver.blueprint, ver.world, k) = "correct"
       /\ Len(Scan(ver.blueprint, ver.world).correctBlocks) >= ver.validation.correctBlocks

\* C20: checkEnclosure passes when none of the wall positions it scans holds a
\* block, and checkRoofCoverage and checkInteriorClearing pass when none of
\* the floor cells they scan holds a block, however many gaps were counted.
C20_EmptyStructurePasses ==
    ver.pc = "checks"
    => LET solid == {p \in DOMAIN ver.world : ver.world[p] # "null"}
           done(n) == ver.tests[n] # NotRun
       IN /\ (done("enclosure_check") /\ solid \cap EnclosurePerimeter = {})
                => ver.tests["enclosure_check"].passed
          /\ (done("roof_coverage") /\ \A p \in solid :
                    ~(p[2] = -1 /\ Abs(p[1]) <= roofRadius /\ Abs(p[3]) <= roofRadius))
                => ver.tests["roof_coverage"].passed
          /\ (done("interior_clearing") /\ \A p \in solid :
                    ~(/\ p[2] = 0
                      /\ Abs(p[1]) \in 2..interiorRadius
                      /\ Abs(p[3]) \in 2..interiorRadius))
                => ver.tests["interior_clearing"].passed

\* the three checks have run in a world without any block, and the enclosure
\* scan has counted more gaps than a walled structure may have
C20_Witness ==
    /\ ver.pc = "checks"
    /\ DOMAIN ver.world = {}
    /\ \A n \in CheckNames : ver.tests[n].test = n /\ ver.tests[n].passed
    /\ ver.tests["enclosure_check"].count > maxGaps

\* C21: validateFunctionality('wall') reports functional = false when a column
\* of the wall has an empty cell under one of its blocks, or when the columns
\* of the wall do not all end at the same height.
C21_WallBatteryVerifies ==
    (ver.pc = "batteries" /\ ver.reports["wall"] # NoReport)
    => LET solid(x, y) == IsSolid(blockAt(ver.world, <<x, y, 0>>))
           top(x) == SetMax({y \in 0..WallTop : solid(x, y)} \cup {-1})
           gap == \E x \in 1..WallLen, y \in 0..WallTop :
                     ~solid(x, y) /\ y < top(x)
           uneven == \E x1 \in 1..WallLen, x2 \in 1..WallLen :
                        top(x1) >= 0 /\ top(x2) >= 0 /\ top(x1) # top(x2)
       IN (gap \/ uneven) => ~ver.reports["wall"].functional

\* C22: validateFunctionality of a type without a battery of its own reports
\* functional = false when a block above ground level has an empty cell below
\* it and no block beside it at its height.
C22_GenericBatteryFloating ==
    (ver.pc = "batteries" /\ ver.reports["tower"] # NoReport)
    => LET floating ==
               \E c \in DOMAIN ver.world :
                  /\ c[2] >= 1
                  /\ IsSolid(blockAt(ver.world, c))
                  /\ ~IsSolid(blockAt(ver.world, Plus(c, <<0, -1, 0>>)))
                  /\ \A d \in SideDirs : ~IsSolid(blockAt(ver.world, Plus(c, d)))
       IN /\ floating => ~ver.reports["tower"].functional
          /\ (floating /\ ver.integrity # NotRun) => ~ver.integrity.passed

\* C23: the gate passes only when all four checks pass; build() makes a
\* session, starts monitoring and begins the build loop exactly when the gate
\* passed or force is set, and otherwise returns 'Pre-build validation failed'
\* with no session made, no checkpoint written and no loop begun.
C23_GateDecides ==
    [][ \A bp \in {OneLayer, Hut}, validations \in [CheckTypes -> BOOLEAN],
           force \in BOOLEAN :
          Build("hut", bp, validatePreBuildConditions(validations).passed, force)
          => IF (\A t \in CheckTypes : validations[t]) \/ force
             THEN /\ Len(sess') = Len(sess) + 1
                  /\ currentSession' = Len(sess')
                  /\ guard'.monitoringActive
                  /\ Len(tasks') = Len(tasks) + 1
                  /\ results' = results
             ELSE /\ sess' = sess
                  /\ disk' = disk
                  /\ written' = written
                  /\ tasks' = tasks
                  /\ ~guard'.monitoringActive
                  /\ results' = Append(results,
                        Result("build", FALSE, "Pre-build validation failed", FALSE)) ]_vars

\* one build was refused at the gate and a later one went through it
C23_Witness ==
    /\ Len(results) >= 1
    /\ results[1].reason = "Pre-build validation failed"
    /\ Len(sess) = 1
    /\ disk # <<>>

C25_HandlerCheckpointIsNewest ==
    \A i \in DOMAIN tasks :
        (IsLoop(tasks[i]) /\ tasks[i].pc = "hret" /\ tasks[i].out = "true")
        => LET o == sess[tasks[i].obj]
               files == FilesOf(disk, o.sessionId)
           IN /\ files # {}
              /\ LET ck == disk[<<o.sessionId, latestCheckpoint(files)>>]
                 IN /\ ck.phase = o.phase
                    /\ ck.progress.placedBlocks = o.placedBlocks

\* C26: when advancePhase has returned 'complete' on a session that began at
\* planning, completedPhases is the sequence of the eight phases in order.
C26_AllPhasesCompleted ==
    (adv.n > 0 /\ adv.ret = "complete")
        => sess[adv.obj].completedPhases = phases

\* C27: verifyBlockPlacement on a cell that holds another block than the
\* expected one leaves the expected type in the cell whenever that type is in
\* the inventory, one of the six neighbours of the cell is not empty and the
\* world calls succeed; on an empty cell it issues no dig and no place command.
C27_CorrectionPlaces ==
    ver.pc = "verified"
    => LET was == blockAt(ver.before, Target)
       IN /\ ( /\ IsSolid(was) /\ was.name # ver.blockType
               /\ ver.had[ver.blockType] > 0
               /\ findReferenceBlock(ver.before, Target) # NoCell
               /\ ver.calls.dig /\ ver.calls.place )
             => blockAt(ver.world, Target).name = ver.blockType
          /\ ~IsSolid(was) => (ver.digs = 0 /\ ver.places = 0)

\* C28: while executeFoundation runs and when it has returned, failedBlocks
\* holds exactly one entry for every placement so far that raised or failed its
\* verification, every block so far has been attempted and counted, and the
\* handler returns success whatever the pattern of failed placements.
C28_OneEntryPerFailure ==
    \A i \in DOMAIN tasks :
        (ver.pc = "placing" /\ tasks[i].pc \in {"place", "hret"})
        => LET t == tasks[i]
               done == IF t.pc = "place" THEN t.i - 1 ELSE Len(t.todo)
               failed == {j \in 1..done : ver.outcomes[j] # "placed"}
           IN /\ sess[t.obj].failedBlocks = Cardinality(failed)
              /\ sess[t.obj].placedBlocks = done
              /\ t.pc = "hret" => t.out = "true"

\* the handler has returned after three placements of which one raised and
\* one failed its verification
C28_Witness ==
    \E i \in DOMAIN tasks :
        /\ ver.pc = "placing" /\ tasks[i].pc = "hret" /\ tasks[i].out = "true"
        /\ Len(tasks[i].todo) = MaxPlacings
        /\ \E j, k \in 1..MaxPlacings :
              ver.outcomes[j] = "raised" /\ ver.outcomes[k] = "unverified"
        /\ sess[tasks[i].obj].failedBlocks >= 2

\* C29: a missing-block fix or a wrong-block fix whose target cell has no
\* non-empty neighbour in the six axis directions issues no dig and no place
\* command and leaves the world as it was.
C29_NoNeighbourNoFix ==
    [][(ver.pc \in {"fixMissing", "fixWrong"})
       => LET list == IF ver.pc = "fixMissing" THEN ver.validation.missingBlocks
                      ELSE ver.validation.wrongBlocks
              target == PosOf(ver.blueprint[Batch(list)[ver.k]])
          IN findReferenceBlock(ver.world, target) = NoCell
             => /\ ver'.world = ver.world
                /\ ver'.digs = ver.digs
                /\ ver'.places = ver.places]_vars

C31_InteriorMargin ==
    ver.pc = "checks" /\ ver.tests["interior_clearing"] # NotRun
    => LET w == ver.world
           inner == {c \in Box(interiorRadius, {0}) :
                        /\ Abs(c[1]) < interiorRadius - 1
                        /\ Abs(c[3]) < interiorRadius - 1
                        /\ IsSolid(blockAt(w, Plus(ver.at, c)))}
           counted == {c \in {<<f[1], y, f[3]>> : f \in inner, y \in 1..3} :
                          /\ IsSolid(blockAt(w, Plus(ver.at, c)))
                          /\ blockAt(w, Plus(ver.at, c)).name \notin allowedBlocks}
       IN ver.tests["interior_clearing"].passed
             = (Cardinality(counted) <= maxObstructions)

\* C32: one attemptStructuralFixes call issues at most 5 digs for interior
\* obstructions, at most 5 support placements and at most 5 wall-gap
\* placements, and no command for roof coverage; when it has ended, every
\* failed test with a fix loop has had each of its first 5 items attempted,
\* whether or not a command raised on the way.
C32_BoundedBestEffort ==
    ver.pc \in {"fixes", "fixed"}
    => /\ \A n \in FixLoops : ver.commands[n] <= 5
       /\ ver.commands["roof_coverage"] = 0
       /\ ver.pc = "fixed"
          => \A j \in DOMAIN ver.failedTests :
                LET test == ver.failedTests[j]
                IN (test.test \in FixLoops /\ ~test.passed)
                   => ver.tried[test.test] = Min(test.items, 5)

\* the call has ended, a command raised, and all three fix loops walked five
\* of their six items, with roof coverage failed too
C32_Witness ==
    /\ ver.pc = "fixed" /\ ver.raised
    /\ \A n \in FixLoops : ver.tried[n] = 5 /\ ver.commands[n] = 5
    /\ \E j \in DOMAIN ver.failedTests :
          /\ ver.failedTests[j].test = "roof_coverage"
          /\ ~ver.failedTests[j].passed

\* C33: validateFunctionality raises for no building type: executeVerification
\* on a session whose blueprint lists blocks, with every checkpoint write
\* succeeding, returns and does not raise.
C33_FunctionalityNeverRaises ==
    \A i \in DOMAIN tasks :
        ( /\ tasks[i].pc = "hret"
          /\ sess[tasks[i].obj].phase = "verification"
          /\ sess[tasks[i].obj].blueprint.hasBlocks )
        => tasks[i].out = "true"

\* C34: a step that switches the monitor on or off leaves repeatedFailures,
\* warnings, failures, the pattern logs and lastProgressTime as they were, and
\* a failure counter goes back to 0 only in the recovery that the
\* maxRepeatedFailures-th failure of its kind starts.
C34_ActivationKeepsCounters ==
    [][/\ guard'.monitoringActive # guard.monitoringActive
          => /\ guard'.repeatedFailures = guard.repeatedFailures
             /\ guard'.warnings = guard.warnings
             /\ guard'.failures = guard.failures
             /\ guard'.successes = guard.successes
             /\ guard'.failurePatterns = guard.failurePatterns
             /\ guard'.lastProgressTime = guard.lastProgressTime
       /\ \A k \in PhaseNames :
             (guard.repeatedFailures[k] > 0 /\ guard'.repeatedFailures[k] = 0)
             => /\ guard.repeatedFailures[k] = maxRepeatedFailures - 1
                /\ guard'.failurePatterns = guard.failurePatterns + 1]_vars

\* the monitor has been started and stopped, with a failure counted, a
\* warning logged and the progress timer older than the current time
C34_Witness ==
    /\ ~guard.monitoringActive /\ guard.buildSession = 1
    /\ \E k \in PhaseNames : guard.repeatedFailures[k] > 0
    /\ guard.warnings # <<>>
    /\ guard.lastProgressTime < now

\* C35: in every state of every session, placedBlocks is at most totalBlocks.
C35_PlacedAtMostTotal ==
    \A k \in DOMAIN sess : sess[k].placedBlocks <= sess[k].totalBlocks

\* C36: a block whose placement is in flight is one of the blocks that the
\* classifier of the session's current phase accepts.
C36_PlacementOfCurrentPhase ==
    \A i \in DOMAIN tasks :
        tasks[i].pc = "place"
        => LET o == sess[tasks[i].obj]
               ofPhase == PhaseBlocks(o.blueprint.blocks, o.phase)
           IN \E j \in DOMAIN ofPhase : ofPhase[j] = tasks[i].todo[tasks[i].i]

\* C37: once build() or resumeBuild() has returned and no build loop is
\* running, no step changes a session or writes a checkpoint file.
C37_QuietAfterReturn ==
    [][(results # <<>> /\ \A i \in DOMAIN tasks : ~IsLoop(tasks[i]))
       => (sess' = sess /\ disk' = disk)]_vars

\* C38: whenever the guardian's monitoring is active, the session it monitors
\* is the manager's current session.
C38_MonitorsCurrentSession ==
    guard.monitoringActive => guard.buildSession = currentSession

\* C39: a progress-stagnation warning, and the recovery that comes with it,
\* is raised no earlier than maxStagnantTime after the startMonitoring call
\* that switched the monitor on.
C39_NoEarlyStagnation ==
    [][\A j \in DOMAIN guard'.warnings :
          (j > Len(guard.warnings) /\ guard'.warnings[j] = "progress_stagnation")
          => now' - still >= 30000]_vars

\* C40: the progress of a checkpoint record kept in session.checkpoints reads
\* the same after every step that leaves the record in the list.
C40_CheckpointIsSnapshot ==
    [][\A s \in DOMAIN sess :
          s \in DOMAIN sess'
          => \A k \in DOMAIN sess[s].checkpoints :
                ( /\ k \in DOMAIN sess'[s].checkpoints
                  /\ sess'[s].checkpoints[k] = sess[s].checkpoints[k] )
                => progressOf(sess'[s], k) = progressOf(sess[s], k)]_vars

====
